---- MODULE Spec2Model ----
(***************************************************************************)
(* Model of the elchi CoreDNS plugin: the record cache (cache.go), the     *)
(* synchronisation engine and query path (Elchi.InitClient, performSync,   *)
(* ServeDNS), the backend client (client.go), the webhook server           *)
(* (SyncStatus, handleNotify, handleHealth) and the controller it talks    *)
(* to (mock-controller).                                                   *)
(*                                                                         *)
(* Go strings that the plugin itself takes apart (domain names) are        *)
(* sequences of one-character strings; "" is <<>>.  Strings the plugin     *)
(* only hands to a library (IP literals, type names, version hashes) are   *)
(* TLA+ strings and the library call is a table.                           *)
(*                                                                         *)
(* Every critical section of cache.mu or SyncStatus.mu is one action: the  *)
(* lock makes it atomic for every other lock holder.  Code that runs       *)
(* between two critical sections is a separate step of its process.        *)
(***************************************************************************)
EXTENDS Integers, Sequences, FiniteSets, TLC

(***************************************************************************)
(* Bounds and configuration                                                *)
(***************************************************************************)
\* Length of the model's clock (TimedSpec only).
MaxTime == 7

\* Longest record list and longest delete list of a push batch (BatchSpec only).
MaxBatch == 2

\* Elchi.Timeout in clock units; Elchi.SyncInterval must exceed it
\* (parseElchi: "sync_interval must be greater than timeout").
Timeout == 1

SyncInterval == Timeout + 1

\* defaultTTL of setup.go, the value of Elchi.TTL when none is configured.
defaultTTL == 300

\* Elchi.Zone, normalised by parseElchi (trailing dot).
Zone == <<"z", ".">>

\* Elchi.Secret and a wrong one.
Secret == "s3cret-key"

WrongSecret == "guess"

(***************************************************************************)
(* strings / net library calls used by cache.go                            *)
(***************************************************************************)
LowerChar(ch) ==
    CASE ch = "X" -> "x"
      [] ch = "Y" -> "y"
      [] ch = "Z" -> "z"
      [] OTHER -> ch

ToLower(s) == [i \in 1..Len(s) |-> LowerChar(s[i])]

RECURSIVE TrimLeft(_)
TrimLeft(s) == IF s # <<>> /\ Head(s) = " " THEN TrimLeft(Tail(s)) ELSE s

RECURSIVE TrimRight(_)
TrimRight(s) ==
    IF s # <<>> /\ s[Len(s)] = " " THEN TrimRight(SubSeq(s, 1, Len(s) - 1)) ELSE s

TrimSpace(s) == TrimRight(TrimLeft(s))

HasSuffix(s, suffix) ==
    /\ Len(s) >= Len(suffix)
    /\ SubSeq(s, Len(s) - Len(suffix) + 1, Len(s)) = suffix

\* strings.ToUpper on a record type name.
ToUpper(t) ==
    CASE t = "a" -> "A"
      [] t = "aaaa" -> "AAAA"
      [] t = "mx" -> "MX"
      [] OTHER -> t

\* net.ParseIP followed by To4: "v4", "v6" or "invalid" (ParseIP returned nil).
\* An IPv4-mapped IPv6 literal has a non-nil To4.
IPFamily(ipStr) ==
    CASE ipStr \in {"10.0.0.1", "10.0.0.2", "::ffff:10.0.0.3"} -> "v4"
      [] ipStr \in {"2001:db8::1"} -> "v6"
      [] OTHER -> "invalid"

\* The address a parsed literal denotes (ip.To4() for A, ip for AAAA).
IPAddr(ipStr) == IF ipStr = "::ffff:10.0.0.3" THEN "10.0.0.3" ELSE ipStr

(***************************************************************************)
(* cache.go                                                                *)
(***************************************************************************)
normalizeDomain(domain) ==
    LET normalized == ToLower(TrimSpace(domain))
    IN  IF ~HasSuffix(normalized, <<".">>) THEN normalized \o <<".">> ELSE normalized

\* Go's nil error.
NoErr == "nil"

RR(name, rrtype, ttl, data) ==
    [Name |-> name, Rrtype |-> rrtype, Ttl |-> ttl, Data |-> data]

\* A build that takes the failover branch only when the record has no
\* usable address of its type.
buildPrefersAddresses(record, dttl) ==
    LET name == normalizeDomain(record.Name)
        ttl == IF record.TTL = 0 THEN dttl ELSE record.TTL
        recordType == ToUpper(record.Type)
        v4 == SelectSeq(record.IPs, LAMBDA ipStr : IPFamily(ipStr) = "v4")
        v6 == SelectSeq(record.IPs, LAMBDA ipStr : IPFamily(ipStr) = "v6")
        rrs == CASE recordType = "A" ->
                      [i \in 1..Len(v4) |-> RR(name, "A", ttl, IPAddr(v4[i]))]
                 [] recordType = "AAAA" ->
                      [i \in 1..Len(v6) |-> RR(name, "AAAA", ttl, IPAddr(v6[i]))]
                 [] OTHER -> <<>>
    IN  IF ~record.Enabled /\ Len(rrs) = 0
        THEN IF record.Failover = <<>>
             THEN [rrs |-> <<>>, err |-> "disabled but failover is empty"]
             ELSE [rrs |-> <<RR(name, "CNAME", ttl, normalizeDomain(record.Failover))>>,
                   err |-> NoErr]
        ELSE IF recordType \notin {"A", "AAAA"}
             THEN [rrs |-> <<>>, err |-> "unsupported record type"]
             ELSE IF Len(rrs) = 0
                  THEN [rrs |-> <<>>, err |-> "no valid IPs found"]
                  ELSE [rrs |-> rrs, err |-> NoErr]

\* A build that gives a record up at its first unusable address.
buildFailsOnBadAddress(record, dttl) ==
    LET name == normalizeDomain(record.Name)
        ttl == IF record.TTL = 0 THEN dttl ELSE record.TTL
        recordType == ToUpper(record.Type)
        family == IF recordType = "A" THEN "v4" ELSE "v6"
        good == SelectSeq(record.IPs, LAMBDA ipStr : IPFamily(ipStr) = family)
        rrs == [i \in 1..Len(good) |-> RR(name, recordType, ttl, IPAddr(good[i]))]
    IN  IF ~record.Enabled
        THEN IF record.Failover = <<>>
             THEN [rrs |-> <<>>, err |-> "disabled but failover is empty"]
             ELSE [rrs |-> <<RR(name, "CNAME", ttl, normalizeDomain(record.Failover))>>,
                   err |-> NoErr]
        ELSE IF recordType \notin {"A", "AAAA"}
             THEN [rrs |-> <<>>, err |-> "unsupported record type"]
             ELSE IF Len(good) = 0 \/ Len(good) < Len(record.IPs)
                  THEN [rrs |-> <<>>, err |-> "no valid IPs found"]
                  ELSE [rrs |-> rrs, err |-> NoErr]

\* A build that takes every type other than AAAA for A.
buildDefaultsToA(record, dttl) ==
    LET name == normalizeDomain(record.Name)
        ttl == IF record.TTL = 0 THEN dttl ELSE record.TTL
        recordType == IF ToUpper(record.Type) = "AAAA" THEN "AAAA" ELSE "A"
        family == IF recordType = "A" THEN "v4" ELSE "v6"
        good == SelectSeq(record.IPs, LAMBDA ipStr : IPFamily(ipStr) = family)
        rrs == [i \in 1..Len(good) |-> RR(name, recordType, ttl, IPAddr(good[i]))]
    IN  IF ~record.Enabled
        THEN IF record.Failover = <<>>
             THEN [rrs |-> <<>>, err |-> "disabled but failover is empty"]
             ELSE [rrs |-> <<RR(name, "CNAME", ttl, normalizeDomain(record.Failover))>>,
                   err |-> NoErr]
        ELSE IF Len(good) = 0
             THEN [rrs |-> <<>>, err |-> "no valid IPs found"]
             ELSE [rrs |-> rrs, err |-> NoErr]

\* A build that gives every answer the default TTL.
buildDefaultTTLOnly(record, dttl) ==
    LET name == normalizeDomain(record.Name)
        ttl == dttl
        recordType == ToUpper(record.Type)
        family == IF recordType = "A" THEN "v4" ELSE "v6"
        good == SelectSeq(record.IPs, LAMBDA ipStr : IPFamily(ipStr) = family)
        rrs == [i \in 1..Len(good) |-> RR(name, recordType, ttl, IPAddr(good[i]))]
    IN  IF ~record.Enabled
        THEN IF record.Failover = <<>>
             THEN [rrs |-> <<>>, err |-> "disabled but failover is empty"]
             ELSE [rrs |-> <<RR(name, "CNAME", ttl, normalizeDomain(record.Failover))>>,
                   err |-> NoErr]
        ELSE IF recordType \notin {"A", "AAAA"}
             THEN [rrs |-> <<>>, err |-> "unsupported record type"]
             ELSE IF Len(good) = 0
                  THEN [rrs |-> <<>>, err |-> "no valid IPs found"]
                  ELSE [rrs |-> rrs, err |-> NoErr]

buildDNSRecords(record, dttl) ==
    LET name == normalizeDomain(record.Name)
        ttl == IF record.TTL = 0 THEN dttl ELSE record.TTL
        recordType == ToUpper(record.Type)
        v4 == SelectSeq(record.IPs, LAMBDA ipStr : IPFamily(ipStr) = "v4")
        v6 == SelectSeq(record.IPs, LAMBDA ipStr : IPFamily(ipStr) = "v6")
        rrs == CASE recordType = "A" ->
                      [i \in 1..Len(v4) |-> RR(name, "A", ttl, IPAddr(v4[i]))]
                 [] recordType = "AAAA" ->
                      [i \in 1..Len(v6) |-> RR(name, "AAAA", ttl, IPAddr(v6[i]))]
                 [] OTHER -> <<>>
    IN  IF ~record.Enabled
        THEN IF record.Failover = <<>>
             THEN [rrs |-> <<>>, err |-> "disabled but failover is empty"]
             ELSE [rrs |-> <<RR(name, "CNAME", ttl, normalizeDomain(record.Failover))>>,
                   err |-> NoErr]
        ELSE IF recordType \notin {"A", "AAAA"}
             THEN [rrs |-> <<>>, err |-> "unsupported record type"]
             ELSE IF Len(rrs) = 0
                  THEN [rrs |-> <<>>, err |-> "no valid IPs found"]
                  ELSE [rrs |-> rrs, err |-> NoErr]

\* make(map[string]map[uint16][]dns.RR)
EmptyMap == [k \in {} |-> k]

MapPut(m, k, v) == [x \in (DOMAIN m) \cup {k} |-> IF x = k THEN v ELSE m[x]]

MapDelete(m, k) == [x \in (DOMAIN m) \ {k} |-> m[x]]

\* The zone test of ReplaceFromSnapshot and Update.
InZone(domain, zone) == HasSuffix(domain, zone) \/ domain = zone

NewRecordCache(zone) ==
    [zone |-> zone, versionHash |-> "", records |-> EmptyMap, updatedAt |-> 0]

\* A loop iteration that throws away what was built so far when a record is
\* out of the zone or does not build.
ReplaceBuildOneAborts(newRecords, record, zone, dttl) ==
    LET domain == normalizeDomain(record.Name)
        built == buildDNSRecords(record, dttl)
        qtype == built.rrs[1].Rrtype
        qtypeMap == IF domain \in DOMAIN newRecords THEN newRecords[domain] ELSE EmptyMap
        old == IF qtype \in DOMAIN qtypeMap THEN qtypeMap[qtype] ELSE <<>>
    IN  IF ~InZone(domain, zone) THEN EmptyMap
        ELSE IF built.err # NoErr THEN EmptyMap
        ELSE IF Len(built.rrs) = 0 THEN newRecords
        ELSE MapPut(newRecords, domain, MapPut(qtypeMap, qtype, old \o built.rrs))

\* One iteration of ReplaceFromSnapshot's loop: the bucket is appended to.
ReplaceBuildOne(newRecords, record, zone, dttl) ==
    LET domain == normalizeDomain(record.Name)
        built == buildDNSRecords(record, dttl)
        qtype == built.rrs[1].Rrtype
        qtypeMap == IF domain \in DOMAIN newRecords THEN newRecords[domain] ELSE EmptyMap
        old == IF qtype \in DOMAIN qtypeMap THEN qtypeMap[qtype] ELSE <<>>
    IN  IF ~InZone(domain, zone) THEN newRecords
        ELSE IF built.err # NoErr THEN newRecords
        ELSE IF Len(built.rrs) = 0 THEN newRecords
        ELSE MapPut(newRecords, domain, MapPut(qtypeMap, qtype, old \o built.rrs))

RECURSIVE ReplaceBuild(_, _, _, _)
ReplaceBuild(newRecords, recs, zone, dttl) ==
    IF recs = <<>> THEN newRecords
    ELSE ReplaceBuild(ReplaceBuildOne(newRecords, Head(recs), zone, dttl),
                      Tail(recs), zone, dttl)

\* A swap that merges the new generation into the old map instead of
\* replacing it.
ReplaceSwapMerged(c, newRecords, versionHash, t) ==
    [c EXCEPT !.records = [d \in (DOMAIN c.records) \cup (DOMAIN newRecords) |->
                              IF d \in DOMAIN newRecords THEN newRecords[d]
                              ELSE c.records[d]],
              !.versionHash = versionHash, !.updatedAt = t]

\* A swap that installs the new records under the old version hash.
ReplaceSwapKeepsHash(c, newRecords, versionHash, t) ==
    [c EXCEPT !.records = newRecords, !.updatedAt = t]

\* The critical section of ReplaceFromSnapshot.
ReplaceSwap(c, newRecords, versionHash, t) ==
    [c EXCEPT !.records = newRecords, !.versionHash = versionHash, !.updatedAt = t]

\* A *DNSSnapshot; Nil marks the nil pointer.
DNSSnapshot(zone, versionHash, recs) ==
    [Nil |-> FALSE, Zone |-> zone, VersionHash |-> versionHash, Records |-> recs]

NilSnapshot == [Nil |-> TRUE, Zone |-> <<>>, VersionHash |-> "", Records |-> <<>>]

\* A ReplaceFromSnapshot that builds on top of the map the cache holds.
ReplaceFromSnapshotInPlace(c, snapshot, dttl, t) ==
    IF snapshot.Nil
    THEN [cache |-> c, err |-> "snapshot is nil"]
    ELSE [cache |-> ReplaceSwap(c, ReplaceBuild(c.records, snapshot.Records, c.zone, dttl),
                                snapshot.VersionHash, t),
          err |-> NoErr]

\* ReplaceFromSnapshot as a whole.
ReplaceFromSnapshot(c, snapshot, dttl, t) ==
    IF snapshot.Nil
    THEN [cache |-> c, err |-> "snapshot is nil"]
    ELSE [cache |-> ReplaceSwap(c, ReplaceBuild(EmptyMap, snapshot.Records, c.zone, dttl),
                                snapshot.VersionHash, t),
          err |-> NoErr]

Get(c, qname, qtype) ==
    LET domain == normalizeDomain(qname)
    IN  IF domain \notin DOMAIN c.records THEN <<>>
        ELSE IF qtype \notin DOMAIN c.records[domain] THEN <<>>
        ELSE c.records[domain][qtype]

GetVersionHash(c) == c.versionHash

Count(c) == Cardinality(DOMAIN c.records)

\* An Update iteration that appends to the bucket instead of replacing it.
UpdateOneAppends(records, record, zone, dttl) ==
    LET domain == normalizeDomain(record.Name)
        built == buildDNSRecords(record, dttl)
        qtype == built.rrs[1].Rrtype
        qtypeMap == IF domain \in DOMAIN records THEN records[domain] ELSE EmptyMap
        old == IF qtype \in DOMAIN qtypeMap THEN qtypeMap[qtype] ELSE <<>>
    IN  IF ~InZone(domain, zone) THEN records
        ELSE IF built.err # NoErr THEN records
        ELSE IF Len(built.rrs) = 0 THEN records
        ELSE MapPut(records, domain, MapPut(qtypeMap, qtype, old \o built.rrs))

\* An Update iteration that starts the domain's type map afresh.
UpdateOneResetsDomain(records, record, zone, dttl) ==
    LET domain == normalizeDomain(record.Name)
        built == buildDNSRecords(record, dttl)
        qtype == built.rrs[1].Rrtype
    IN  IF ~InZone(domain, zone) THEN records
        ELSE IF built.err # NoErr THEN records
        ELSE IF Len(built.rrs) = 0 THEN records
        ELSE MapPut(records, domain, MapPut(EmptyMap, qtype, built.rrs))

\* One iteration of Update's loop: the bucket is replaced.
UpdateOne(records, record, zone, dttl) ==
    LET domain == normalizeDomain(record.Name)
        built == buildDNSRecords(record, dttl)
        qtype == built.rrs[1].Rrtype
        qtypeMap == IF domain \in DOMAIN records THEN records[domain] ELSE EmptyMap
    IN  IF ~InZone(domain, zone) THEN records
        ELSE IF built.err # NoErr THEN records
        ELSE IF Len(built.rrs) = 0 THEN records
        ELSE MapPut(records, domain, MapPut(qtypeMap, qtype, built.rrs))

RECURSIVE UpdateLoop(_, _, _, _)
UpdateLoop(records, recs, zone, dttl) ==
    IF recs = <<>> THEN records
    ELSE UpdateLoop(UpdateOne(records, Head(recs), zone, dttl), Tail(recs), zone, dttl)

\* An Update that also invalidates the version hash.
UpdateResetsVersion(c, recs, dttl, t) ==
    IF Len(recs) = 0 THEN c
    ELSE [c EXCEPT !.records = UpdateLoop(c.records, recs, c.zone, dttl),
                   !.versionHash = "", !.updatedAt = t]

Update(c, recs, dttl, t) ==
    IF Len(recs) = 0 THEN c
    ELSE [c EXCEPT !.records = UpdateLoop(c.records, recs, c.zone, dttl),
                   !.updatedAt = t]

\* A Delete iteration that takes the entry's type as it is written.
DeleteOneAnyType(records, del) ==
    LET domain == normalizeDomain(del.Name)
        qtype == ToUpper(del.Type)
    IN  IF domain \notin DOMAIN records THEN records
        ELSE IF DOMAIN MapDelete(records[domain], qtype) = {}
             THEN MapDelete(records, domain)
             ELSE MapPut(records, domain, MapDelete(records[domain], qtype))

\* A Delete iteration that removes the whole domain entry.
DeleteOneDropsDomain(records, del) ==
    LET domain == normalizeDomain(del.Name)
        qtype == ToUpper(del.Type)
    IN  IF qtype \notin {"A", "AAAA"} THEN records
        ELSE IF domain \notin DOMAIN records THEN records
        ELSE MapDelete(records, domain)

\* One iteration of Delete's loop.
\* A Delete iteration that keeps the domain entry when its last bucket goes.
DeleteOneKeepsDomain(records, del) ==
    LET domain == normalizeDomain(del.Name)
        qtype == ToUpper(del.Type)
    IN  IF qtype \notin {"A", "AAAA"} THEN records
        ELSE IF domain \notin DOMAIN records THEN records
        ELSE MapPut(records, domain, MapDelete(records[domain], qtype))

DeleteOne(records, del) ==
    LET domain == normalizeDomain(del.Name)
        qtype == ToUpper(del.Type)
        qtypeMap == MapDelete(records[domain], qtype)
    IN  IF qtype \notin {"A", "AAAA"} THEN records
        ELSE IF domain \notin DOMAIN records THEN records
        ELSE IF DOMAIN qtypeMap = {} THEN MapDelete(records, domain)
        ELSE MapPut(records, domain, qtypeMap)

RECURSIVE DeleteLoop(_, _)
DeleteLoop(records, deletes) ==
    IF deletes = <<>> THEN records
    ELSE DeleteLoop(DeleteOne(records, Head(deletes)), Tail(deletes))

Delete(c, deletes, t) ==
    IF Len(deletes) = 0 THEN c
    ELSE [c EXCEPT !.records = DeleteLoop(c.records, deletes), !.updatedAt = t]

(***************************************************************************)
(* webhook.go: SyncStatus                                                  *)
(***************************************************************************)
\* &SyncStatus{lastSyncStatus: "initial"}; lastSyncTime is the zero time.
NewSyncStatus == [lastSyncTime |-> 0, lastSyncStatus |-> "initial", lastError |-> ""]

SyncStatusUpdate(s, status, err, t) ==
    [lastSyncTime |-> t,
     lastSyncStatus |-> status,
     lastError |-> IF err # NoErr THEN err ELSE ""]

\* SyncStatus.Get
SyncStatusGet(s) ==
    [lastSync |-> s.lastSyncTime, syncStatus |-> s.lastSyncStatus, lastError |-> s.lastError]

(***************************************************************************)
(* webhook.go: handleHealth                                                *)
(***************************************************************************)
HealthResponse(status, zone, count, versionHash, lastSync, lastSyncStatus, error, code) ==
    [Status |-> status, Zone |-> zone, RecordsCount |-> count, VersionHash |-> versionHash,
     LastSync |-> lastSync, LastSyncStatus |-> lastSyncStatus, Error |-> error,
     code |-> code]

NoHealthResponse == HealthResponse("", <<>>, 0, "", 0, "", "", 0)

\* "Determine overall health status" and the response, given what the
\* handler read; t is time.Now() at the comparison.
handleHealth(got, zone, count, versionHash, syncInterval, t) ==
    IF got.syncStatus = "failed" /\ t - got.lastSync > 2 * syncInterval
    THEN HealthResponse("degraded", zone, count, versionHash, got.lastSync,
                        got.syncStatus, got.lastError, 503)
    ELSE HealthResponse("healthy", zone, count, versionHash, got.lastSync,
                        got.syncStatus, "", 200)

(***************************************************************************)
(* client.go: what FetchSnapshot and CheckChanges make of an HTTP exchange *)
(* An exchange is [neterr, status, json, body]: neterr is a transport      *)
(* failure or timeout, json tells whether the body decodes.                *)
(***************************************************************************)
Payload(unchanged, zone, versionHash, recs) ==
    [Unchanged |-> unchanged, Zone |-> zone, VersionHash |-> versionHash, Records |-> recs]

NoPayload == Payload(FALSE, <<>>, "", <<>>)

HTTP(neterr, status, json, body) ==
    [neterr |-> neterr, status |-> status, json |-> json, body |-> body]

\* A FetchSnapshot that accepts a snapshot without version_hash.
FetchSnapshotAnyHash(resp) ==
    IF resp.neterr THEN [snapshot |-> NilSnapshot, err |-> "request failed"]
    ELSE IF resp.status # 200
    THEN [snapshot |-> NilSnapshot, err |-> "unexpected status code"]
    ELSE IF ~resp.json
    THEN [snapshot |-> NilSnapshot, err |-> "failed to decode response"]
    ELSE IF resp.body.Zone = <<>>
    THEN [snapshot |-> NilSnapshot, err |-> "invalid response: missing zone"]
    ELSE [snapshot |-> DNSSnapshot(resp.body.Zone, resp.body.VersionHash, resp.body.Records),
          err |-> NoErr]

FetchSnapshot(resp) ==
    IF resp.neterr THEN [snapshot |-> NilSnapshot, err |-> "request failed"]
    ELSE IF resp.status # 200
    THEN [snapshot |-> NilSnapshot, err |-> "unexpected status code"]
    ELSE IF ~resp.json
    THEN [snapshot |-> NilSnapshot, err |-> "failed to decode response"]
    ELSE IF resp.body.Zone = <<>>
    THEN [snapshot |-> NilSnapshot, err |-> "invalid response: missing zone"]
    ELSE IF resp.body.VersionHash = ""
    THEN [snapshot |-> NilSnapshot, err |-> "invalid response: missing version_hash"]
    ELSE [snapshot |-> DNSSnapshot(resp.body.Zone, resp.body.VersionHash, resp.body.Records),
          err |-> NoErr]

\* A CheckChanges that does not validate version_hash.
CheckChangesAnyHash(resp) ==
    IF resp.neterr THEN [changes |-> NoPayload, err |-> "request failed"]
    ELSE IF resp.status = 304
    THEN [changes |-> Payload(TRUE, <<>>, "", <<>>), err |-> NoErr]
    ELSE IF resp.status # 200
    THEN [changes |-> NoPayload, err |-> "unexpected status code"]
    ELSE IF ~resp.json
    THEN [changes |-> NoPayload, err |-> "failed to decode response"]
    ELSE IF ~resp.body.Unchanged /\ resp.body.Zone = <<>>
    THEN [changes |-> NoPayload, err |-> "invalid response: missing zone in changes"]
    ELSE [changes |-> resp.body, err |-> NoErr]

CheckChanges(resp) ==
    IF resp.neterr THEN [changes |-> NoPayload, err |-> "request failed"]
    ELSE IF resp.status = 304
    THEN [changes |-> Payload(TRUE, <<>>, "", <<>>), err |-> NoErr]
    ELSE IF resp.status # 200
    THEN [changes |-> NoPayload, err |-> "unexpected status code"]
    ELSE IF ~resp.json
    THEN [changes |-> NoPayload, err |-> "failed to decode response"]
    ELSE IF ~resp.body.Unchanged /\ resp.body.Zone = <<>>
    THEN [changes |-> NoPayload, err |-> "invalid response: missing zone in changes"]
    ELSE IF ~resp.body.Unchanged /\ resp.body.VersionHash = ""
    THEN [changes |-> NoPayload, err |-> "invalid response: missing version_hash in changes"]
    ELSE [changes |-> resp.body, err |-> NoErr]

(***************************************************************************)
(* Inputs: records the controller serves and pushes, queries               *)
(***************************************************************************)
NameX == <<"x", ".", "z">>

NameXUpper == <<" ", "X", ".", "Z", ".">>

NameY == <<"y", ".", "z">>

NameOut == <<"x", ".", "o">>

DNSRecord(name, type, ttl, ips, enabled, failover) ==
    [Name |-> name, Type |-> type, TTL |-> ttl, IPs |-> ips,
     Enabled |-> enabled, Failover |-> failover]

RecXA1 == DNSRecord(NameX, "A", 0, <<"10.0.0.1">>, TRUE, <<>>)

RecXA2 == DNSRecord(NameXUpper, "a", 60, <<"10.0.0.2", "bogus", "2001:db8::1">>, TRUE, NameY)

RecXFailover == DNSRecord(NameX, "A", 30, <<"10.0.0.1">>, FALSE, NameY)

\* The AAAA record of the same name, failed over as well.
RecXFailover6 == DNSRecord(NameX, "AAAA", 0, <<"2001:db8::1">>, FALSE, NameY)

RecYA == DNSRecord(NameY, "A", 0, <<"10.0.0.2">>, TRUE, <<>>)

RecOut == DNSRecord(NameOut, "A", 0, <<"10.0.0.1">>, TRUE, <<>>)

RecDisabledNoFailover == DNSRecord(NameY, "A", 0, <<"10.0.0.1">>, FALSE, <<>>)

\* A name that ends with the zone's characters but is no subdomain of it.
NameSibling == <<"x", "z">>

RecSibling == DNSRecord(NameSibling, "A", 0, <<"10.0.0.1">>, TRUE, <<>>)

RecEnabledNoIPs == DNSRecord(NameX, "A", 30, <<>>, TRUE, NameY)

RecNoIPsNoFailover == DNSRecord(NameY, "A", 0, <<>>, TRUE, <<>>)

\* The controller's successive record sets, each under its own version hash.
Generations ==
    <<DNSSnapshot(Zone, "v1", <<RecXA1, RecYA>>),
      DNSSnapshot(Zone, "v2", <<RecXFailover, RecXFailover6, RecYA, RecOut>>),
      DNSSnapshot(Zone, "v3", <<RecXA1, RecXA2, RecDisabledNoFailover>>)>>

DeleteRecord(name, type) == [Name |-> name, Type |-> type]

NotifyRequest(recs, deletes) == [Records |-> recs, Deletes |-> deletes]

NotifyRequests ==
    {NotifyRequest(<<RecXA1>>, <<>>),
     NotifyRequest(<<RecXFailover>>, <<>>),
     NotifyRequest(<<RecYA, RecOut>>, <<DeleteRecord(NameX, "a")>>),
     NotifyRequest(<<>>, <<DeleteRecord(NameY, "A"), DeleteRecord(NameX, "CNAME")>>)}

Question(qname, qtype) == [qname |-> qname, qtype |-> qtype]

\* state.Name() is lower-case and fully qualified.
Questions ==
    {Question(normalizeDomain(NameX), "A"),
     Question(normalizeDomain(NameY), "A"),
     Question(normalizeDomain(NameX), "CNAME"),
     Question(normalizeDomain(NameX), "MX"),
     Question(normalizeDomain(NameOut), "A")}

\* The loop of ReplaceFromSnapshot run on each record list the controller
\* serves, tabulated.
ReplaceBuildOf ==
    [recs \in {Generations[i].Records : i \in 1..Len(Generations)} |->
        ReplaceBuild(EmptyMap, recs, Zone, defaultTTL)]

\* What the controller can do to one exchange.
Faults == {"none", "neterr", "status500", "garbage", "nohash"}

(***************************************************************************)
(* mock-controller/main.go                                                 *)
(***************************************************************************)
handleSnapshot(mockSnapshot, fault) ==
    CASE fault = "neterr" -> HTTP(TRUE, 0, FALSE, NoPayload)
      [] fault = "status500" -> HTTP(FALSE, 500, FALSE, NoPayload)
      [] fault = "garbage" -> HTTP(FALSE, 200, FALSE, NoPayload)
      [] fault = "nohash" ->
            HTTP(FALSE, 200, TRUE, Payload(FALSE, mockSnapshot.Zone, "", mockSnapshot.Records))
      [] OTHER ->
            HTTP(FALSE, 200, TRUE,
                 Payload(FALSE, mockSnapshot.Zone, mockSnapshot.VersionHash,
                         mockSnapshot.Records))

handleChanges(mockSnapshot, since, fault) ==
    IF fault = "none" /\ since = mockSnapshot.VersionHash
    THEN HTTP(FALSE, 304, FALSE, NoPayload)
    ELSE handleSnapshot(mockSnapshot, fault)

(***************************************************************************)
(* elchi.go: ServeDNS                                                      *)
(***************************************************************************)
\* plugin.Zones.Matches: the zone itself or a name below it.
ZoneMatches(zone, qname) == qname = zone \/ HasSuffix(qname, <<".">> \o zone)

\* The Corefile has "fallthrough y.z": names at or below y.z. fall through.
FallZones == {normalizeDomain(NameY)}

\* Elchi.Fall.Through: the name is in one of the fallthrough zones.
FallThrough(qname) == \E z \in FallZones : ZoneMatches(z, qname)

\* plugin.NextOrFailure: the query goes to the next plugin, nothing is written.
Delegated == [rcode |-> "NEXT", answer |-> <<>>, aa |-> FALSE]

\* A reply that answers every miss itself, fallthrough or not.
ReplyNoFallThrough(rrs, qname) ==
    IF Len(rrs) = 0
    THEN [rcode |-> "NXDOMAIN", answer |-> <<>>, aa |-> TRUE]
    ELSE [rcode |-> "NOERROR", answer |-> rrs, aa |-> TRUE]

\* ServeDNS from line 88 on: the reply for the records found.
Reply(rrs, qname) ==
    IF Len(rrs) = 0
    THEN IF FallThrough(qname) THEN Delegated
         ELSE [rcode |-> "NXDOMAIN", answer |-> <<>>, aa |-> TRUE]
    ELSE [rcode |-> "NOERROR", answer |-> rrs, aa |-> TRUE]

\* ServeDNS run on one cache value without interruption.
ServeDNS(c, q) ==
    IF ~ZoneMatches(c.zone, q.qname) THEN Delegated
    ELSE IF q.qtype \in {"A", "AAAA"}
    THEN IF Len(Get(c, q.qname, "CNAME")) > 0
         THEN Reply(Get(c, q.qname, "CNAME"), q.qname)
         ELSE Reply(Get(c, q.qname, q.qtype), q.qname)
    ELSE IF q.qtype = "CNAME" THEN Reply(Get(c, q.qname, "CNAME"), q.qname)
    ELSE Delegated

(***************************************************************************)
(* State                                                                   *)
(***************************************************************************)
VARIABLES
    cache,       \* Elchi.cache: [zone, versionHash, records, updatedAt]
    syncStatus,  \* Elchi.syncStatus
    sync,        \* the goroutine of InitClient and then backgroundSync; done
                 \* says that e.shutdownCtx is cancelled
    wh,          \* one webhook /notify request being handled
    rd,          \* one ServeDNS call
    health,      \* one /health request being handled
    backend,     \* index of the controller's current generation
    stable,      \* the controller has stopped changing, failing and pushing
    now,         \* the clock
    ticker,      \* when backgroundSync's ticker fires next
    gSync,       \* history: the cache when the sync attempt began, pushes since
    gRead,       \* history: the cache states one ServeDNS call ran across
    gTime,       \* history: when a sync last succeeded
    mu           \* cache.mu and syncStatus.mu: who holds each, reading or writing

progVars == <<cache, syncStatus, sync, wh, rd, health, backend, stable>>

histVars == <<gSync, gRead, gTime>>

\* What a step of the plugin leaves alone where neither the clock nor the
\* locks are looked at.
timeVars == <<now, ticker, mu>>

vars == <<cache, syncStatus, sync, wh, rd, health, backend, stable, now, ticker,
          gSync, gRead, gTime, mu>>

\* Both mutexes free.
NoLocks == [cache |-> {}, status |-> {}]

IdleSync ==
    [pc |-> "init", attempt |-> "startup", currentHash |-> "",
     snapshot |-> NilSnapshot, newRecords |-> EmptyMap, sentAt |-> 0,
     done |-> FALSE]

IdleNotify ==
    [pc |-> "down", req |-> NotifyRequest(<<>>, <<>>), updated |-> 0, deleted |-> 0,
     code |-> 0]

IdleRead ==
    [pc |-> "idle", q |-> Question(<<>>, ""), cnameRRs |-> <<>>, rrs |-> <<>>,
     reply |-> Delegated]

IdleHealth ==
    [pc |-> "idle", got |-> SyncStatusGet(NewSyncStatus), count |-> 0,
     resp |-> NoHealthResponse]

NoRead ==
    [pre |-> Delegated, post |-> Delegated, hash1 |-> "", hash2 |-> "",
     replaces |-> 0, pushes |-> 0]

NoAttempt == [pre |-> NewRecordCache(Zone), pushed |-> FALSE]

Init ==
    /\ cache = NewRecordCache(Zone)
    /\ syncStatus = NewSyncStatus
    /\ sync = IdleSync
    /\ wh = IdleNotify
    /\ rd = IdleRead
    /\ health = IdleHealth
    /\ backend \in 1..Len(Generations)
    /\ stable = FALSE
    /\ now = 0
    /\ ticker = 0
    /\ gSync = NoAttempt
    /\ gRead = NoRead
    /\ gTime = -1
    /\ mu = NoLocks

\* Elchi.Ready: e.cache is nil until InitClient has created it.
Ready == sync.pc # "init" /\ GetVersionHash(cache) # ""

(***************************************************************************)
(* History bookkeeping (no program state)                                  *)
(***************************************************************************)
InAttempt == sync.pc \in {"fetch", "check", "swap", "mark"}

\* A write to the cache committed while a ServeDNS call is between its two Gets.
NoteWrite(g, kind) ==
    IF rd.pc # "addr" THEN g
    ELSE IF kind = "replace"
    THEN [g EXCEPT !.replaces = IF @ < 2 THEN @ + 1 ELSE @]
    ELSE [g EXCEPT !.pushes = IF @ < 2 THEN @ + 1 ELSE @]

NotePush(g) == IF InAttempt THEN [g EXCEPT !.pushed = TRUE] ELSE g

(***************************************************************************)
(* elchi.go: InitClient, backgroundSync, performSync                       *)
(***************************************************************************)
\* The attempt is over: InitClient goes on to start backgroundSync,
\* performSync returns to the ticker loop.
AttemptOver(s) ==
    [s EXCEPT !.pc = IF s.attempt = "startup" THEN "spawn" ELSE "idle",
              !.currentHash = "", !.snapshot = NilSnapshot, !.newRecords = EmptyMap]

\* An InitClient that starts backgroundSync before its own fetch.
InitClientSpawnsFirst ==
    /\ sync.pc = "init"
    /\ sync' = [sync EXCEPT !.pc = "idle", !.attempt = "startup", !.sentAt = now]
    /\ wh' = [wh EXCEPT !.pc = "idle"]
    /\ gSync' = [pre |-> cache, pushed |-> FALSE]
    /\ UNCHANGED <<cache, syncStatus, rd, health, backend, stable, gRead, gTime>>

\* InitClient up to the FetchSnapshot call: the webhook server is started first.
InitClient ==
    /\ sync.pc = "init"
    /\ sync' = [sync EXCEPT !.pc = "fetch", !.attempt = "startup", !.sentAt = now]
    /\ wh' = [wh EXCEPT !.pc = "idle"]
    /\ gSync' = [pre |-> cache, pushed |-> FALSE]
    /\ UNCHANGED <<cache, syncStatus, rd, health, backend, stable, gRead, gTime>>

\* go e.backgroundSync(): the ticker is created.
BackgroundSyncStart ==
    /\ sync.pc = "spawn"
    /\ sync' = [sync EXCEPT !.pc = "idle"]
    /\ UNCHANGED <<cache, syncStatus, wh, rd, health, backend, stable, gSync, gRead, gTime>>

\* A performSync that asks for changes whatever version hash it read.
PerformSyncStartAlwaysChecks ==
    /\ sync.pc = "idle"
    /\ sync' = [sync EXCEPT !.pc = "check", !.attempt = "tick",
                            !.currentHash = GetVersionHash(cache), !.sentAt = now]
    /\ gSync' = [pre |-> cache, pushed |-> FALSE]
    /\ UNCHANGED <<cache, syncStatus, wh, rd, health, backend, stable, gRead, gTime>>

\* backgroundSync's select takes <-ticker.C (Go chooses among the ready cases
\* at random, whether or not e.shutdownCtx is cancelled), and performSync up
\* to the backend call.
PerformSyncStart ==
    /\ sync.pc = "idle"
    /\ LET currentHash == GetVersionHash(cache)
       IN  sync' = [sync EXCEPT !.pc = IF currentHash = "" THEN "fetch" ELSE "check",
                                !.attempt = "tick", !.currentHash = currentHash,
                                !.sentAt = now]
    /\ gSync' = [pre |-> cache, pushed |-> FALSE]
    /\ UNCHANGED <<cache, syncStatus, wh, rd, health, backend, stable, gRead, gTime>>

FetchSnapshotFailed(fault) ==
    /\ sync.pc = "fetch"
    /\ stable => fault = "none"
    /\ LET r == FetchSnapshot(handleSnapshot(Generations[backend], fault))
       IN  /\ r.err # NoErr
           /\ syncStatus' = SyncStatusUpdate(syncStatus, "failed", r.err, now)
    /\ sync' = AttemptOver(sync)
    /\ UNCHANGED <<cache, wh, rd, health, backend, stable, gSync, gRead, gTime>>

\* A fetch that installs the response in the step that receives it: the
\* cache is written while the backend call is still the goroutine's position.
FetchSnapshotOkInstalls(fault) ==
    /\ sync.pc = "fetch"
    /\ stable => fault = "none"
    /\ LET r == FetchSnapshot(handleSnapshot(Generations[backend], fault))
       IN  /\ r.err = NoErr
           /\ cache' = ReplaceSwap(cache, ReplaceBuildOf[r.snapshot.Records],
                                   r.snapshot.VersionHash, now)
           /\ sync' = [sync EXCEPT
                          !.pc = "mark", !.currentHash = "", !.snapshot = r.snapshot,
                          !.newRecords = ReplaceBuildOf[r.snapshot.Records]]
    /\ UNCHANGED <<syncStatus, wh, rd, health, backend, stable, gSync, gRead, gTime>>

FetchSnapshotOk(fault) ==
    /\ sync.pc = "fetch"
    /\ stable => fault = "none"
    /\ LET r == FetchSnapshot(handleSnapshot(Generations[backend], fault))
       IN  /\ r.err = NoErr
           /\ sync' = [sync EXCEPT
                          !.pc = "swap", !.currentHash = "", !.snapshot = r.snapshot,
                          !.newRecords = ReplaceBuildOf[r.snapshot.Records]]
    /\ UNCHANGED <<cache, syncStatus, wh, rd, health, backend, stable, gSync, gRead, gTime>>

\* A failure path that drops the cached generation.
CheckChangesFailedClears(fault) ==
    /\ sync.pc = "check"
    /\ stable => fault = "none"
    /\ LET r == CheckChanges(handleChanges(Generations[backend], sync.currentHash, fault))
       IN  /\ r.err # NoErr
           /\ syncStatus' = SyncStatusUpdate(syncStatus, "failed", r.err, now)
    /\ cache' = ReplaceSwap(cache, EmptyMap, "", now)
    /\ sync' = AttemptOver(sync)
    /\ UNCHANGED <<wh, rd, health, backend, stable, gSync, gRead, gTime>>

CheckChangesFailed(fault) ==
    /\ sync.pc = "check"
    /\ stable => fault = "none"
    /\ LET r == CheckChanges(handleChanges(Generations[backend], sync.currentHash, fault))
       IN  /\ r.err # NoErr
           /\ syncStatus' = SyncStatusUpdate(syncStatus, "failed", r.err, now)
    /\ sync' = AttemptOver(sync)
    /\ UNCHANGED <<cache, wh, rd, health, backend, stable, gSync, gRead, gTime>>

\* An unchanged answer after which the cache is rebuilt from the controller's
\* records all the same.
CheckChangesUnchangedRefreshes(fault) ==
    /\ sync.pc = "check"
    /\ stable => fault = "none"
    /\ LET r == CheckChanges(handleChanges(Generations[backend], sync.currentHash, fault))
       IN  /\ r.err = NoErr
           /\ r.changes.Unchanged
           /\ syncStatus' = SyncStatusUpdate(syncStatus, "success", NoErr, now)
    /\ cache' = ReplaceSwap(cache, ReplaceBuildOf[Generations[backend].Records],
                            sync.currentHash, now)
    /\ sync' = AttemptOver(sync)
    /\ gTime' = now
    /\ UNCHANGED <<wh, rd, health, backend, stable, gSync, gRead>>

CheckChangesUnchanged(fault) ==
    /\ sync.pc = "check"
    /\ stable => fault = "none"
    /\ LET r == CheckChanges(handleChanges(Generations[backend], sync.currentHash, fault))
       IN  /\ r.err = NoErr
           /\ r.changes.Unchanged
           /\ syncStatus' = SyncStatusUpdate(syncStatus, "success", NoErr, now)
    /\ sync' = AttemptOver(sync)
    /\ gTime' = now
    /\ UNCHANGED <<cache, wh, rd, health, backend, stable, gSync, gRead>>

\* A changed answer whose records are installed under the version hash the
\* tick sent.
CheckChangesChangedKeepsTag(fault) ==
    /\ sync.pc = "check"
    /\ stable => fault = "none"
    /\ LET r == CheckChanges(handleChanges(Generations[backend], sync.currentHash, fault))
       IN  /\ r.err = NoErr
           /\ ~r.changes.Unchanged
           /\ sync' = [sync EXCEPT
                          !.pc = "swap", !.currentHash = "",
                          !.snapshot = DNSSnapshot(r.changes.Zone, sync.currentHash,
                                                   r.changes.Records),
                          !.newRecords = ReplaceBuildOf[r.changes.Records]]
    /\ UNCHANGED <<cache, syncStatus, wh, rd, health, backend, stable, gSync, gRead, gTime>>

CheckChangesChanged(fault) ==
    /\ sync.pc = "check"
    /\ stable => fault = "none"
    /\ LET r == CheckChanges(handleChanges(Generations[backend], sync.currentHash, fault))
       IN  /\ r.err = NoErr
           /\ ~r.changes.Unchanged
           /\ sync' = [sync EXCEPT
                          !.pc = "swap", !.currentHash = "",
                          !.snapshot = DNSSnapshot(r.changes.Zone, r.changes.VersionHash,
                                                   r.changes.Records),
                          !.newRecords = ReplaceBuildOf[r.changes.Records]]
    /\ UNCHANGED <<cache, syncStatus, wh, rd, health, backend, stable, gSync, gRead, gTime>>

\* ReplaceFromSnapshot, the critical section.
ReplaceCommit ==
    /\ sync.pc = "swap"
    /\ cache' = ReplaceSwap(cache, sync.newRecords, sync.snapshot.VersionHash, now)
    /\ sync' = [sync EXCEPT !.pc = "mark"]
    /\ gRead' = NoteWrite(gRead, "replace")
    /\ UNCHANGED <<syncStatus, wh, rd, health, backend, stable, gSync, gTime>>

\* e.syncStatus.Update("success", nil) after ReplaceFromSnapshot returned nil.
MarkSuccess ==
    /\ sync.pc = "mark"
    /\ syncStatus' = SyncStatusUpdate(syncStatus, "success", NoErr, now)
    /\ sync' = AttemptOver(sync)
    /\ gTime' = now
    /\ UNCHANGED <<cache, wh, rd, health, backend, stable, gSync, gRead>>

\* InitClient has returned, so setup has registered the shutdown hook.
Started == sync.pc \in {"spawn", "idle", "exited"} \/ sync.attempt = "tick"

\* Shutdown: e.shutdownCancel().
ShutdownCancel ==
    /\ Started
    /\ ~sync.done
    /\ sync' = [sync EXCEPT !.done = TRUE]
    /\ UNCHANGED <<cache, syncStatus, wh, rd, health, backend, stable, gSync, gRead, gTime>>

\* Shutdown: e.webhookServer.Stop(ctx), which waits for the handler at work.
ShutdownStopWebhook ==
    /\ sync.done
    /\ wh.pc = "idle"
    /\ wh' = [wh EXCEPT !.pc = "down"]
    /\ UNCHANGED <<cache, syncStatus, sync, rd, health, backend, stable, gSync, gRead, gTime>>

\* backgroundSync's select takes <-e.shutdownCtx.Done() and returns.
BackgroundSyncExit ==
    /\ sync.pc = "idle"
    /\ sync.done
    /\ sync' = [sync EXCEPT !.pc = "exited"]
    /\ UNCHANGED <<cache, syncStatus, wh, rd, health, backend, stable, gSync, gRead, gTime>>

(***************************************************************************)
(* webhook.go: authMiddleware and handleNotify                             *)
(***************************************************************************)
\* A middleware that lets every request through.
authMiddlewareOpen(secret) == TRUE

authMiddleware(secret) == secret = Secret

NoRequest == NotifyRequest(<<>>, <<>>)

\* A request the middleware turns away: handleNotify never sees the body.
NotifyUnauthorized(secret, req) ==
    /\ wh.pc = "idle"
    /\ ~stable
    /\ ~authMiddleware(secret)
    /\ wh' = [pc |-> "idle", req |-> NoRequest, updated |-> 0, deleted |-> 0, code |-> 401]
    /\ UNCHANGED <<cache, syncStatus, sync, rd, health, backend, stable, gSync, gRead, gTime>>

\* NewWebhookServer: the endpoints, and whether authMiddleware wraps them.
Routes == [notify |-> TRUE, health |-> FALSE, records |-> TRUE]

\* The request reaches the endpoint's handler.
Admit(path, secret) == Routes[path] => authMiddleware(secret)

\* r.Header.Get("X-Elchi-Secret") of a request without the header.
NoSecret == ""

\* The secrets a request can carry, the header left out included.
AuthSecrets == {Secret, WrongSecret, NoSecret}

\* GET /records: behind the middleware; handleRecords only reads the cache.
RecordsRequest(secret) ==
    /\ wh.pc = "idle"
    /\ ~stable
    /\ wh' = [pc |-> "idle", req |-> NoRequest, updated |-> 0, deleted |-> 0,
              code |-> IF Admit("records", secret) THEN 200 ELSE 401]
    /\ UNCHANGED <<cache, syncStatus, sync, rd, health, backend, stable, gSync, gRead, gTime>>

\* handleNotify up to the end of "Process updates": cache.Update is one
\* critical section.
NotifyUpdate(secret, req) ==
    /\ wh.pc = "idle"
    /\ ~stable
    /\ authMiddleware(secret)
    /\ IF Len(req.Records) > 0
       THEN /\ cache' = Update(cache, req.Records, defaultTTL, now)
            /\ wh' = [pc |-> "delete", req |-> req, updated |-> Len(req.Records),
                      deleted |-> 0, code |-> 0]
            /\ gSync' = NotePush(gSync)
            /\ gRead' = NoteWrite(gRead, "push")
       ELSE /\ wh' = [pc |-> "delete", req |-> req, updated |-> 0, deleted |-> 0,
                      code |-> 0]
            /\ UNCHANGED <<cache, gSync, gRead>>
    /\ UNCHANGED <<syncStatus, sync, rd, health, backend, stable, gTime>>

\* "Process deletes" and the response: cache.Delete is another critical
\* section.  The handler returns: wh keeps the response, not the request.
NotifyDelete ==
    /\ wh.pc = "delete"
    /\ IF Len(wh.req.Deletes) > 0
       THEN /\ cache' = Delete(cache, wh.req.Deletes, now)
            /\ wh' = [wh EXCEPT !.pc = "idle", !.req = NoRequest,
                                !.deleted = Len(wh.req.Deletes), !.code = 200]
            /\ gSync' = NotePush(gSync)
            /\ gRead' = NoteWrite(gRead, "push")
       ELSE /\ wh' = [wh EXCEPT !.pc = "idle", !.req = NoRequest, !.code = 200]
            /\ UNCHANGED <<cache, gSync, gRead>>
    /\ UNCHANGED <<syncStatus, sync, rd, health, backend, stable, gTime>>

(***************************************************************************)
(* elchi.go: ServeDNS, step by step                                        *)
(***************************************************************************)
\* A ServeDNS that looks for the address bucket first and for the CNAME
\* only when there is none.
ServeDNSBeginAddrFirst(q) ==
    /\ rd.pc \in {"idle", "done"}
    /\ sync.pc # "init"
    /\ LET cnameRRs == Get(cache, q.qname, "CNAME")
           addrRRs == Get(cache, q.qname, q.qtype)
       IN  rd' = IF ~ZoneMatches(cache.zone, q.qname)
                 THEN [pc |-> "done", q |-> q, cnameRRs |-> <<>>, rrs |-> <<>>,
                       reply |-> Delegated]
                 ELSE IF q.qtype \in {"A", "AAAA"}
                 THEN IF Len(addrRRs) > 0
                      THEN [pc |-> "done", q |-> q, cnameRRs |-> <<>>, rrs |-> addrRRs,
                            reply |-> Reply(addrRRs, q.qname)]
                      ELSE [pc |-> "done", q |-> q, cnameRRs |-> cnameRRs, rrs |-> cnameRRs,
                            reply |-> Reply(cnameRRs, q.qname)]
                 ELSE IF q.qtype = "CNAME"
                 THEN [pc |-> "done", q |-> q, cnameRRs |-> <<>>, rrs |-> cnameRRs,
                       reply |-> Reply(cnameRRs, q.qname)]
                 ELSE [pc |-> "done", q |-> q, cnameRRs |-> <<>>, rrs |-> <<>>,
                       reply |-> Delegated]
    /\ gRead' = [pre |-> ServeDNS(cache, q), post |-> ServeDNS(cache, q),
                 hash1 |-> cache.versionHash, hash2 |-> cache.versionHash,
                 replaces |-> 0, pushes |-> 0]
    /\ UNCHANGED <<cache, syncStatus, sync, wh, health, backend, stable, gSync, gTime>>

\* ServeDNS up to and including its first cache.Get.
ServeDNSBegin(q) ==
    /\ rd.pc \in {"idle", "done"}
    /\ sync.pc # "init"
    /\ LET cnameRRs == Get(cache, q.qname, "CNAME")
       IN  rd' = IF ~ZoneMatches(cache.zone, q.qname)
                 THEN [pc |-> "done", q |-> q, cnameRRs |-> <<>>, rrs |-> <<>>,
                       reply |-> Delegated]
                 ELSE IF q.qtype \in {"A", "AAAA"}
                 THEN IF Len(cnameRRs) > 0
                      THEN [pc |-> "done", q |-> q, cnameRRs |-> cnameRRs, rrs |-> cnameRRs,
                            reply |-> Reply(cnameRRs, q.qname)]
                      ELSE [pc |-> "addr", q |-> q, cnameRRs |-> cnameRRs, rrs |-> <<>>,
                            reply |-> Delegated]
                 ELSE IF q.qtype = "CNAME"
                 THEN [pc |-> "done", q |-> q, cnameRRs |-> <<>>, rrs |-> cnameRRs,
                       reply |-> Reply(cnameRRs, q.qname)]
                 ELSE [pc |-> "done", q |-> q, cnameRRs |-> <<>>, rrs |-> <<>>,
                       reply |-> Delegated]
    /\ gRead' = [pre |-> ServeDNS(cache, q), post |-> ServeDNS(cache, q),
                 hash1 |-> cache.versionHash, hash2 |-> cache.versionHash,
                 replaces |-> 0, pushes |-> 0]
    /\ UNCHANGED <<cache, syncStatus, sync, wh, health, backend, stable, gSync, gTime>>

\* "No CNAME, look for A/AAAA records": the second cache.Get, and the reply.
ServeDNSAddr ==
    /\ rd.pc = "addr"
    /\ LET rrs == Get(cache, rd.q.qname, rd.q.qtype)
       IN  rd' = [rd EXCEPT !.pc = "done", !.rrs = rrs, !.reply = Reply(rrs, rd.q.qname)]
    /\ gRead' = [gRead EXCEPT !.post = ServeDNS(cache, rd.q), !.hash2 = cache.versionHash]
    /\ UNCHANGED <<cache, syncStatus, sync, wh, health, backend, stable, gSync, gTime>>

(***************************************************************************)
(* The controller                                                          *)
(***************************************************************************)
\* The controller's record set changes: a new generation under a new hash.
BackendChange(g) ==
    /\ ~stable
    /\ g # backend
    /\ backend' = g
    /\ UNCHANGED <<cache, syncStatus, sync, wh, rd, health, stable, gSync, gRead, gTime>>

Secrets == {Secret, WrongSecret}

Next ==
    \/ InitClient /\ UNCHANGED timeVars
    \/ BackgroundSyncStart /\ UNCHANGED timeVars
    \/ PerformSyncStart /\ UNCHANGED timeVars
    \/ (\E fault \in Faults : FetchSnapshotFailed(fault)) /\ UNCHANGED timeVars
    \/ (\E fault \in Faults : FetchSnapshotOk(fault)) /\ UNCHANGED timeVars
    \/ (\E fault \in Faults : CheckChangesFailed(fault)) /\ UNCHANGED timeVars
    \/ (\E fault \in Faults : CheckChangesUnchanged(fault)) /\ UNCHANGED timeVars
    \/ (\E fault \in Faults : CheckChangesChanged(fault)) /\ UNCHANGED timeVars
    \/ ReplaceCommit /\ UNCHANGED timeVars
    \/ MarkSuccess /\ UNCHANGED timeVars
    \/ (\E secret \in Secrets, req \in NotifyRequests : NotifyUnauthorized(secret, req))
          /\ UNCHANGED timeVars
    \/ (\E secret \in Secrets, req \in NotifyRequests : NotifyUpdate(secret, req))
          /\ UNCHANGED timeVars
    \/ NotifyDelete /\ UNCHANGED timeVars
    \/ (\E g \in 1..Len(Generations) : BackendChange(g)) /\ UNCHANGED timeVars

Spec == Init /\ [][Next]_vars

(***************************************************************************)
(* The query path beside the sync worker: ServeDNS calls while the         *)
(* controller changes generation and every exchange succeeds.              *)
(***************************************************************************)
ReadNext ==
    \/ InitClient /\ UNCHANGED timeVars
    \/ BackgroundSyncStart /\ UNCHANGED timeVars
    \/ PerformSyncStart /\ UNCHANGED timeVars
    \/ FetchSnapshotOk("none") /\ UNCHANGED timeVars
    \/ CheckChangesUnchanged("none") /\ UNCHANGED timeVars
    \/ CheckChangesChanged("none") /\ UNCHANGED timeVars
    \/ ReplaceCommit /\ UNCHANGED timeVars
    \/ MarkSuccess /\ UNCHANGED timeVars
    \/ (\E q \in Questions : ServeDNSBegin(q)) /\ UNCHANGED timeVars
    \/ ServeDNSAddr /\ UNCHANGED timeVars
    \/ (\E g \in 1..Len(Generations) : BackendChange(g)) /\ UNCHANGED timeVars

ReadSpec == Init /\ [][ReadNext]_vars

(***************************************************************************)
(* The query path beside the webhook: ServeDNS calls and pushes after      *)
(* startup, between two ticks.                                             *)
(***************************************************************************)
PushReadNext ==
    \/ InitClient /\ UNCHANGED timeVars
    \/ FetchSnapshotOk("none") /\ UNCHANGED timeVars
    \/ FetchSnapshotFailed("neterr") /\ UNCHANGED timeVars
    \/ ReplaceCommit /\ UNCHANGED timeVars
    \/ MarkSuccess /\ UNCHANGED timeVars
    \/ BackgroundSyncStart /\ UNCHANGED timeVars
    \/ (\E req \in NotifyRequests : NotifyUpdate(Secret, req)) /\ UNCHANGED timeVars
    \/ NotifyDelete /\ UNCHANGED timeVars
    \/ (\E q \in Questions : ServeDNSBegin(q)) /\ UNCHANGED timeVars
    \/ ServeDNSAddr /\ UNCHANGED timeVars

PushReadSpec == Init /\ [][PushReadNext]_vars
(***************************************************************************)
(* The cache under push batches of every shape: handleNotify after         *)
(* startup, with record lists and delete lists up to MaxBatch long.        *)
(***************************************************************************)
RecordCatalogue ==
    {RecXA1, RecXA2, RecXFailover, RecOut, RecSibling, RecEnabledNoIPs,
     RecNoIPsNoFailover}

DeleteCatalogue ==
    {DeleteRecord(NameX, "a"), DeleteRecord(NameY, "A"), DeleteRecord(NameX, "CNAME"),
     DeleteRecord(NameXUpper, "AAAA")}

SeqsUpTo(S, n) == UNION {[1..k -> S] : k \in 0..n}

BatchRequests ==
    {NotifyRequest(recs, <<>>) : recs \in SeqsUpTo(RecordCatalogue, MaxBatch)}
        \cup {NotifyRequest(<<>>, deletes) : deletes \in SeqsUpTo(DeleteCatalogue, MaxBatch)}

BatchNext ==
    \/ InitClient /\ UNCHANGED timeVars
    \/ FetchSnapshotOk("none") /\ UNCHANGED timeVars
    \/ FetchSnapshotFailed("neterr") /\ UNCHANGED timeVars
    \/ ReplaceCommit /\ UNCHANGED timeVars
    \/ MarkSuccess /\ UNCHANGED timeVars
    \/ (sync.pc = "spawn" /\ \E req \in BatchRequests : NotifyUpdate(Secret, req))
           /\ UNCHANGED timeVars
    \/ NotifyDelete /\ UNCHANGED timeVars

BatchSpec == Init /\ [][BatchNext]_vars

(***************************************************************************)
(* buildDNSRecords on records of every shape, one record per push          *)
(***************************************************************************)
BuildTypes == {"A", "a", "AAAA", "aaaa", "MX", "CNAME"}

BuildTTLs == {0, 45}

BuildIPs ==
    {<<>>, <<"10.0.0.1">>, <<"bogus">>, <<"2001:db8::1">>,
     <<"2001:db8::1", "10.0.0.2", "bogus", "10.0.0.1">>,
     <<"::ffff:10.0.0.3", "2001:db8::1">>}

BuildFailovers == {<<>>, NameY, <<"Y", ".", "Z", " ">>}

BuildRecords ==
    {DNSRecord(NameX, type, ttl, ips, enabled, failover) :
        type \in BuildTypes, ttl \in BuildTTLs, ips \in BuildIPs,
        enabled \in BOOLEAN, failover \in BuildFailovers}

BuildNext ==
    \/ InitClient /\ UNCHANGED timeVars
    \/ FetchSnapshotOk("none") /\ UNCHANGED timeVars
    \/ FetchSnapshotFailed("neterr") /\ UNCHANGED timeVars
    \/ ReplaceCommit /\ UNCHANGED timeVars
    \/ MarkSuccess /\ UNCHANGED timeVars
    \/ (sync.pc = "spawn" /\ \E record \in BuildRecords :
                                 NotifyUpdate(Secret, NotifyRequest(<<record>>, <<>>)))
           /\ UNCHANGED timeVars
    \/ NotifyDelete /\ UNCHANGED timeVars

BuildSpec == Init /\ [][BuildNext]_vars

(***************************************************************************)
(* webhook.go: handleHealth, step by step                                  *)
(***************************************************************************)
\* handleHealth up to syncStatus.Get(); the server listens since InitClient.
HealthGetStatus ==
    /\ health.pc = "idle"
    /\ wh.pc # "down"
    /\ health' = [pc |-> "count", got |-> SyncStatusGet(syncStatus), count |-> 0,
                  resp |-> NoHealthResponse]
    /\ UNCHANGED <<cache, syncStatus, sync, wh, rd, backend, stable, gSync, gRead, gTime>>

\* cache.Count()
HealthCount ==
    /\ health.pc = "count"
    /\ health' = [health EXCEPT !.pc = "reply", !.count = Count(cache)]
    /\ UNCHANGED <<cache, syncStatus, sync, wh, rd, backend, stable, gSync, gRead, gTime>>

\* cache.GetVersionHash(), the comparison with time.Since and the response.
HealthReply ==
    /\ health.pc = "reply"
    /\ health' = [health EXCEPT
                     !.pc = "idle",
                     !.resp = handleHealth(health.got, Zone, health.count,
                                           GetVersionHash(cache), SyncInterval, now)]
    /\ UNCHANGED <<cache, syncStatus, sync, wh, rd, backend, stable, gSync, gRead, gTime>>

\* GET /health with whatever secret the request carries.
HealthRequest(secret) == Admit("health", secret) /\ HealthGetStatus

\* POST /notify with a secret: the middleware, then the handler's first part.
Notify(secret, req) == NotifyUnauthorized(secret, req) \/ NotifyUpdate(secret, req)

(***************************************************************************)
(* The webhook server under requests with and without the secret           *)
(***************************************************************************)
AuthNext ==
    \/ InitClient /\ UNCHANGED timeVars
    \/ FetchSnapshotOk("none") /\ UNCHANGED timeVars
    \/ FetchSnapshotFailed("neterr") /\ UNCHANGED timeVars
    \/ ReplaceCommit /\ UNCHANGED timeVars
    \/ MarkSuccess /\ UNCHANGED timeVars
    \/ (\E secret \in AuthSecrets, req \in NotifyRequests : NotifyUnauthorized(secret, req))
           /\ UNCHANGED timeVars
    \/ (\E secret \in AuthSecrets, req \in NotifyRequests : NotifyUpdate(secret, req))
           /\ UNCHANGED timeVars
    \/ NotifyDelete /\ UNCHANGED timeVars
    \/ (\E secret \in AuthSecrets : RecordsRequest(secret)) /\ UNCHANGED timeVars
    \/ (\E secret \in AuthSecrets : HealthRequest(secret)) /\ UNCHANGED timeVars
    \/ HealthCount /\ UNCHANGED timeVars
    \/ HealthReply /\ UNCHANGED timeVars

AuthSpec == Init /\ [][AuthNext]_vars

(***************************************************************************)
(* The plugin in time: the ticker, the client timeout, the health endpoint *)
(***************************************************************************)
\* A backend call is in flight.
InFlight == sync.pc \in {"fetch", "check"}

\* The clock moves on.  A call in flight ends within Elchi.Timeout; steps
\* that wait for nothing (a due tick, the swap, the status update, the
\* /health handler) are taken before the clock moves.
AdvanceTime ==
    /\ now < MaxTime
    /\ health.pc = "idle"
    /\ sync.pc \notin {"init", "spawn", "swap", "mark"}
    /\ sync.pc = "idle" => now < ticker
    /\ InFlight => now < sync.sentAt + Timeout
    /\ now' = now + 1
    /\ UNCHANGED <<progVars, histVars, ticker, mu>>

TimedFaults == {"none", "neterr"}

TimedNext ==
    \/ InitClient /\ UNCHANGED timeVars
    \/ BackgroundSyncStart /\ ticker' = now + SyncInterval /\ UNCHANGED <<now, mu>>
    \/ PerformSyncStart /\ now >= ticker /\ ticker' = ticker + SyncInterval /\ UNCHANGED <<now, mu>>
    \/ (\E fault \in TimedFaults : FetchSnapshotFailed(fault)) /\ UNCHANGED timeVars
    \/ (\E fault \in TimedFaults : FetchSnapshotOk(fault)) /\ UNCHANGED timeVars
    \/ (\E fault \in TimedFaults : CheckChangesFailed(fault)) /\ UNCHANGED timeVars
    \/ (\E fault \in TimedFaults : CheckChangesUnchanged(fault)) /\ UNCHANGED timeVars
    \/ (\E fault \in TimedFaults : CheckChangesChanged(fault)) /\ UNCHANGED timeVars
    \/ ReplaceCommit /\ UNCHANGED timeVars
    \/ MarkSuccess /\ UNCHANGED timeVars
    \/ (\E g \in 1..Len(Generations) : BackendChange(g)) /\ UNCHANGED timeVars
    \/ HealthGetStatus /\ UNCHANGED timeVars
    \/ HealthCount /\ UNCHANGED timeVars
    \/ HealthReply /\ UNCHANGED timeVars
    \/ AdvanceTime

TimedSpec == Init /\ [][TimedNext]_vars

(***************************************************************************)
(* The plugin and its shutdown: the sync goroutine with its clock and      *)
(* ticker, and CoreDNS calling Shutdown at any moment after setup.         *)
(***************************************************************************)
\* The clock; a goroutine whose select is ready runs before time moves on.
ShutdownAdvanceTime ==
    /\ ~(sync.pc = "idle" /\ sync.done)
    /\ AdvanceTime

\* The steps of the goroutine of InitClient and backgroundSync.
ShutdownSyncStep ==
    \/ InitClient /\ UNCHANGED timeVars
    \/ BackgroundSyncStart /\ ticker' = now + SyncInterval /\ UNCHANGED <<now, mu>>
    \/ PerformSyncStart /\ now >= ticker /\ ticker' = ticker + SyncInterval /\ UNCHANGED <<now, mu>>
    \/ BackgroundSyncExit /\ UNCHANGED timeVars
    \/ (\E fault \in TimedFaults : FetchSnapshotFailed(fault)) /\ UNCHANGED timeVars
    \/ (\E fault \in TimedFaults : FetchSnapshotOk(fault)) /\ UNCHANGED timeVars
    \/ (\E fault \in TimedFaults : CheckChangesFailed(fault)) /\ UNCHANGED timeVars
    \/ (\E fault \in TimedFaults : CheckChangesUnchanged(fault)) /\ UNCHANGED timeVars
    \/ (\E fault \in TimedFaults : CheckChangesChanged(fault)) /\ UNCHANGED timeVars
    \/ ReplaceCommit /\ UNCHANGED timeVars
    \/ MarkSuccess /\ UNCHANGED timeVars

ShutdownNext ==
    \/ InitClient /\ UNCHANGED timeVars
    \/ BackgroundSyncStart /\ ticker' = now + SyncInterval /\ UNCHANGED <<now, mu>>
    \/ PerformSyncStart /\ now >= ticker /\ ticker' = ticker + SyncInterval /\ UNCHANGED <<now, mu>>
    \/ BackgroundSyncExit /\ UNCHANGED timeVars
    \/ (\E fault \in TimedFaults : FetchSnapshotFailed(fault)) /\ UNCHANGED timeVars
    \/ (\E fault \in TimedFaults : FetchSnapshotOk(fault)) /\ UNCHANGED timeVars
    \/ (\E fault \in TimedFaults : CheckChangesFailed(fault)) /\ UNCHANGED timeVars
    \/ (\E fault \in TimedFaults : CheckChangesUnchanged(fault)) /\ UNCHANGED timeVars
    \/ (\E fault \in TimedFaults : CheckChangesChanged(fault)) /\ UNCHANGED timeVars
    \/ ReplaceCommit /\ UNCHANGED timeVars
    \/ MarkSuccess /\ UNCHANGED timeVars
    \/ (\E g \in 1..Len(Generations) : BackendChange(g)) /\ UNCHANGED timeVars
    \/ ShutdownCancel /\ UNCHANGED timeVars
    \/ ShutdownStopWebhook /\ UNCHANGED timeVars
    \/ ShutdownAdvanceTime

\* The goroutine is scheduled: a ready select, a returned call, go on.
ShutdownSpec == Init /\ [][ShutdownNext]_vars /\ WF_vars(ShutdownSyncStep)

(***************************************************************************)
(* The plugin once the controller settles: from some point on the          *)
(* controller is reachable, its record set stays, and no push arrives.     *)
(* The sync goroutine keeps running and its ticker keeps firing.           *)
(***************************************************************************)
\* The point from which the controller is settled, taken between two
\* sync attempts and between two push batches.
Stabilize ==
    /\ ~stable
    /\ sync.pc = "idle"
    /\ wh.pc = "idle"
    /\ stable' = TRUE
    /\ UNCHANGED <<cache, syncStatus, sync, wh, rd, health, backend, gSync, gRead, gTime>>

LiveFaults == {"none", "neterr"}

\* The steps of the goroutine of InitClient and backgroundSync.
SyncStep ==
    /\ \/ InitClient
       \/ BackgroundSyncStart
       \/ PerformSyncStart
       \/ \E fault \in LiveFaults : FetchSnapshotFailed(fault)
       \/ \E fault \in LiveFaults : FetchSnapshotOk(fault)
       \/ \E fault \in LiveFaults : CheckChangesFailed(fault)
       \/ \E fault \in LiveFaults : CheckChangesUnchanged(fault)
       \/ \E fault \in LiveFaults : CheckChangesChanged(fault)
       \/ ReplaceCommit
       \/ MarkSuccess
    /\ UNCHANGED timeVars

LiveNext ==
    \/ InitClient /\ UNCHANGED timeVars
    \/ BackgroundSyncStart /\ UNCHANGED timeVars
    \/ PerformSyncStart /\ UNCHANGED timeVars
    \/ (\E fault \in LiveFaults : FetchSnapshotFailed(fault)) /\ UNCHANGED timeVars
    \/ (\E fault \in LiveFaults : FetchSnapshotOk(fault)) /\ UNCHANGED timeVars
    \/ (\E fault \in LiveFaults : CheckChangesFailed(fault)) /\ UNCHANGED timeVars
    \/ (\E fault \in LiveFaults : CheckChangesUnchanged(fault)) /\ UNCHANGED timeVars
    \/ (\E fault \in LiveFaults : CheckChangesChanged(fault)) /\ UNCHANGED timeVars
    \/ ReplaceCommit /\ UNCHANGED timeVars
    \/ MarkSuccess /\ UNCHANGED timeVars
    \/ (\E req \in NotifyRequests : NotifyUpdate(Secret, req)) /\ UNCHANGED timeVars
    \/ NotifyDelete /\ UNCHANGED timeVars
    \/ (\E g \in 1..Len(Generations) : BackendChange(g)) /\ UNCHANGED timeVars
    \/ Stabilize /\ UNCHANGED timeVars

\* The goroutine is never blocked for good: a backend call returns within
\* Elchi.Timeout and the ticker fires every Elchi.SyncInterval.
LiveSpec == Init /\ [][LiveNext]_vars /\ WF_vars(SyncStep)

(***************************************************************************)
(* SyncStatus on its own: goroutines calling Update and Get, as            *)
(* TestSyncStatus_ThreadSafety does, with every status and error value.    *)
(***************************************************************************)
StatusNames == {"success", "failed", "initial"}

StatusErrs == {NoErr, "request failed", "snapshot is nil"}

\* ss.Update(status, err): one critical section under SyncStatus.mu.
StatusUpdate(status, err) ==
    /\ syncStatus' = SyncStatusUpdate(syncStatus, status, err, now)
    /\ UNCHANGED <<cache, sync, wh, rd, health, backend, stable, gSync, gRead, gTime>>

\* ss.Get(): one critical section under SyncStatus.mu.
StatusGet ==
    /\ health' = [health EXCEPT !.got = SyncStatusGet(syncStatus)]
    /\ UNCHANGED <<cache, syncStatus, sync, wh, rd, backend, stable, gSync, gRead, gTime>>

\* time.Now() moves on between two calls.
StatusClock ==
    /\ now < MaxTime
    /\ now' = now + 1
    /\ UNCHANGED <<progVars, histVars, ticker, mu>>

StatusNext ==
    \/ (\E status \in StatusNames : \E err \in StatusErrs : StatusUpdate(status, err))
           /\ UNCHANGED timeVars
    \/ StatusGet /\ UNCHANGED timeVars
    \/ StatusClock

StatusSpec == Init /\ [][StatusNext]_vars

(***************************************************************************)
(* The two mutexes made explicit: every critical section of the four       *)
(* goroutines is an acquisition step followed by the step that does the    *)
(* section's work and unlocks.  The controller keeps its record set, so a  *)
(* change check is answered unchanged or fails.                            *)
(***************************************************************************)
Procs == {"sync", "wh", "rd", "health"}

Mutexes == {"cache", "status"}

\* p is inside a critical section of mutex m.
Holds(p, m) == \E x \in {"r", "w"} : <<p, x>> \in mu[m]

\* sync.RWMutex: Lock needs the mutex free, RLock needs it free of a writer.
CanLock(m, x) ==
    IF x = "w" THEN mu[m] = {} ELSE \A h \in mu[m] : h[2] = "r"

\* c.mu.Lock() / c.mu.RLock() / s.mu.Lock() / s.mu.RLock() returns.
Acquire(p, m, x) ==
    /\ ~Holds(p, m)
    /\ CanLock(m, x)
    /\ mu' = [mu EXCEPT ![m] = @ \cup {<<p, x>>}]
    /\ UNCHANGED <<progVars, histVars, now, ticker>>

\* A return that leaves the mutex locked.
UnlockForgotten(p, m) == UNCHANGED <<mu, now, ticker>>

\* The (deferred) Unlock / RUnlock of the section p is in.
Unlock(p, m) ==
    /\ mu' = [mu EXCEPT ![m] = {h \in @ : h[1] # p}]
    /\ UNCHANGED <<now, ticker>>

\* p is outside every critical section.
Outside(p) == \A m \in Mutexes : ~Holds(p, m)

LockRequests == {NotifyRequest(<<RecYA, RecOut>>, <<DeleteRecord(NameX, "a")>>)}

LockQuestions == {Question(normalizeDomain(NameX), "A")}

LockNext ==
    \/ Outside("sync") /\ InitClient /\ UNCHANGED timeVars
    \/ Outside("sync") /\ BackgroundSyncStart /\ UNCHANGED timeVars
    \/ sync.pc = "idle" /\ Acquire("sync", "cache", "r")
    \/ <<"sync", "r">> \in mu.cache /\ PerformSyncStart /\ Unlock("sync", "cache")
    \/ Outside("sync") /\ (\E fault \in TimedFaults : FetchSnapshotOk(fault))
           /\ UNCHANGED timeVars
    \/ sync.pc \in {"fetch", "check", "mark"} /\ Acquire("sync", "status", "w")
    \/ <<"sync", "w">> \in mu.status /\ (\E fault \in TimedFaults : FetchSnapshotFailed(fault))
           /\ Unlock("sync", "status")
    \/ <<"sync", "w">> \in mu.status /\ (\E fault \in TimedFaults : CheckChangesFailed(fault))
           /\ Unlock("sync", "status")
    \/ <<"sync", "w">> \in mu.status /\ (\E fault \in TimedFaults : CheckChangesUnchanged(fault))
           /\ Unlock("sync", "status")
    \/ sync.pc = "swap" /\ Acquire("sync", "cache", "w")
    \/ <<"sync", "w">> \in mu.cache /\ ReplaceCommit /\ Unlock("sync", "cache")
    \/ <<"sync", "w">> \in mu.status /\ MarkSuccess /\ Unlock("sync", "status")
    \/ wh.pc \in {"idle", "delete"} /\ Acquire("wh", "cache", "w")
    \/ <<"wh", "w">> \in mu.cache /\ (\E req \in LockRequests : NotifyUpdate(Secret, req))
           /\ Unlock("wh", "cache")
    \/ <<"wh", "w">> \in mu.cache /\ NotifyDelete /\ Unlock("wh", "cache")
    \/ rd.pc \in {"idle", "addr"} /\ sync.pc # "init" /\ Acquire("rd", "cache", "r")
    \/ <<"rd", "r">> \in mu.cache /\ (\E q \in LockQuestions : ServeDNSBegin(q))
           /\ Unlock("rd", "cache")
    \/ <<"rd", "r">> \in mu.cache /\ ServeDNSAddr /\ Unlock("rd", "cache")
    \/ health.pc = "idle" /\ wh.pc # "down" /\ Acquire("health", "status", "r")
    \/ <<"health", "r">> \in mu.status /\ HealthGetStatus /\ Unlock("health", "status")
    \/ health.pc \in {"count", "reply"} /\ Acquire("health", "cache", "r")
    \/ <<"health", "r">> \in mu.cache /\ HealthCount /\ Unlock("health", "cache")
    \/ <<"health", "r">> \in mu.cache /\ HealthReply /\ Unlock("health", "cache")

LockSpec == Init /\ [][LockNext]_vars

(***************************************************************************)
(* Properties                                                              *)
(***************************************************************************)
\* The records map ReplaceFromSnapshot builds from the controller's
\* generation published under a version hash; no generation has hash "".
BuildOf(versionHash) ==
    IF \E i \in 1..Len(Generations) : Generations[i].VersionHash = versionHash
    THEN LET i == CHOOSE i \in 1..Len(Generations) :
                      Generations[i].VersionHash = versionHash
         IN  ReplaceFromSnapshot(NewRecordCache(Zone), Generations[i], defaultTTL, 0).cache
    ELSE NewRecordCache(Zone)

\* C1: a ServeDNS call that one ReplaceFromSnapshot overlaps replies what
\* it would reply on the cache before the replace or on the cache after it.
C1_ResolutionSeesOneGeneration ==
    (rd.pc = "done" /\ gRead.replaces = 1 /\ gRead.pushes = 0)
        => rd.reply \in {gRead.pre, gRead.post}

\* C2: every cache.Get of a ServeDNS call, with ReplaceFromSnapshot calls
\* in between, returns the complete bucket of the generation whose version
\* hash the cache carried at that Get (nothing if that generation lacks it).
C2_LookupSeesOneGeneration ==
    /\ rd.pc = "addr" =>
          rd.cnameRRs = Get(BuildOf(gRead.hash1), rd.q.qname, "CNAME")
    /\ (rd.pc = "done" /\ ZoneMatches(Zone, rd.q.qname) /\ rd.q.qtype = "CNAME") =>
          rd.rrs = Get(BuildOf(gRead.hash1), rd.q.qname, "CNAME")
    /\ (rd.pc = "done" /\ ZoneMatches(Zone, rd.q.qname) /\ rd.q.qtype \in {"A", "AAAA"}) =>
          IF Len(rd.cnameRRs) > 0
          THEN rd.cnameRRs = Get(BuildOf(gRead.hash1), rd.q.qname, "CNAME")
          ELSE rd.rrs = Get(BuildOf(gRead.hash2), rd.q.qname, rd.q.qtype)

\* A ServeDNS call whose two lookups straddled a replace and found records.
C2_Witness ==
    /\ rd.pc = "done"
    /\ gRead.replaces >= 1
    /\ gRead.hash1 # ""
    /\ gRead.hash1 # gRead.hash2
    /\ Len(rd.rrs) > 0
    /\ rd.q.qtype = "A"

\* The step in which a sync attempt's backend call fails.
SyncFailureStep ==
    /\ sync.pc \in {"fetch", "check"}
    /\ sync'.pc \in {"idle", "spawn"}
    /\ syncStatus'.lastSyncStatus # "success"

\* C3: when a sync attempt fails after an earlier successful sync, the
\* failing step does not touch the cache; if no push came during the attempt
\* the records and version hash are those of the attempt's start and every
\* query gets the answer it got then; SyncStatus is "failed" with an error.
C3_FailedSyncKeepsCache ==
    [][(SyncFailureStep /\ gTime >= 0) =>
          /\ cache' = cache
          /\ ~gSync.pushed =>
                /\ cache'.records = gSync.pre.records
                /\ cache'.versionHash = gSync.pre.versionHash
                /\ \A q \in Questions : ServeDNS(cache', q) = ServeDNS(gSync.pre, q)
          /\ syncStatus'.lastSyncStatus = "failed"
          /\ syncStatus'.lastError # ""]_vars

\* A failed tick after a successful sync, the populated cache still there.
C3_Witness ==
    /\ sync.pc = "idle"
    /\ syncStatus.lastSyncStatus = "failed"
    /\ gTime >= 0
    /\ ~gSync.pushed
    /\ Count(cache) > 0
    /\ cache.versionHash # ""

QXA == Question(normalizeDomain(NameX), "A")

IsIndirection(reply) ==
    /\ Len(reply.answer) > 0
    /\ \A i \in 1..Len(reply.answer) : reply.answer[i].Rrtype = "CNAME"

\* C4: when x resolves to a CNAME and an update arrives (a push batch or a
\* full replace) that by itself gives x address records and no CNAME, then
\* after the update (x, A) resolves to exactly those address records.
C4_UpdateReplacesFailover ==
    [][/\ \A req \in NotifyRequests :
             LET alone == Update(NewRecordCache(Zone), req.Records, defaultTTL, 0)
             IN  (/\ wh.pc = "idle"
                  /\ wh'.pc = "delete"
                  /\ wh'.req = req
                  /\ IsIndirection(ServeDNS(cache, QXA))
                  /\ Len(Get(alone, QXA.qname, "A")) > 0
                  /\ Len(Get(alone, QXA.qname, "CNAME")) = 0)
                 => ServeDNS(cache', QXA) = Reply(Get(alone, QXA.qname, "A"), QXA.qname)
       /\ LET alone == ReplaceFromSnapshot(NewRecordCache(Zone), sync.snapshot,
                                           defaultTTL, 0).cache
          IN  (/\ sync.pc = "swap"
               /\ sync'.pc = "mark"
               /\ IsIndirection(ServeDNS(cache, QXA))
               /\ Len(Get(alone, QXA.qname, "A")) > 0
               /\ Len(Get(alone, QXA.qname, "CNAME")) = 0)
              => ServeDNS(cache', QXA) = Reply(Get(alone, QXA.qname, "A"), QXA.qname)]_vars

\* The cache holds the build of the controller's current record set ...
ContentReconciled ==
    cache.records = ReplaceFromSnapshot(NewRecordCache(Zone), Generations[backend],
                                        defaultTTL, 0).cache.records

\* ... under the controller's current version hash.
TagReconciled == cache.versionHash = Generations[backend].VersionHash

C6_DegradedWhenStale ==
    [][(/\ health.pc = "reply"
        /\ health'.pc = "idle"
        /\ SyncStatusGet(syncStatus) = health.got
        /\ gTime >= 0) =>
          LET stale == /\ syncStatus.lastSyncStatus = "failed"
                       /\ now - gTime > 2 * SyncInterval
          IN  /\ health'.resp.Status = (IF stale THEN "degraded" ELSE "healthy")
              /\ health'.resp.code = (IF stale THEN 503 ELSE 200)]_vars

\* A push batch with updates and deletes has applied its updates and not
\* yet its deletes.
BatchWindow ==
    /\ wh.pc = "delete"
    /\ Len(wh.req.Records) > 0
    /\ Len(wh.req.Deletes) > 0

\* C7: between a batch's updates and its deletes no ServeDNS lookup runs
\* and nothing but the batch writes the cache.
C7_BatchIsOneCriticalSection ==
    [][BatchWindow => (rd' = rd /\ (cache' # cache => wh' # wh))]_vars

\* Update writes this record's bucket.
Written(record, zone, dttl) ==
    /\ InZone(normalizeDomain(record.Name), zone)
    /\ buildDNSRecords(record, dttl).err = NoErr
    /\ Len(buildDNSRecords(record, dttl).rrs) > 0

\* Delete removes a bucket for this entry.
RECURSIVE DeletesApplied(_, _)
DeletesApplied(records, deletes) ==
    IF deletes = <<>> THEN 0
    ELSE (IF DeleteOne(records, Head(deletes)) # records THEN 1 ELSE 0)
         + DeletesApplied(DeleteOne(records, Head(deletes)), Tail(deletes))

\* C8: the counts of a /notify response are the number of records whose
\* bucket Update wrote and the number of entries Delete applied.
C8_CountsAreApplied ==
    [][(wh.pc = "delete" /\ wh'.code = 200 /\ wh'.pc = "idle") =>
          /\ wh'.updated =
                Cardinality({i \in 1..Len(wh.req.Records) :
                                Written(wh.req.Records[i], cache.zone, defaultTTL)})
          /\ wh'.deleted = DeletesApplied(cache.records, wh.req.Deletes)]_vars

\* C9: while the version hash is empty the cache holds no domain and every
\* query in the zone is a miss.
C9_NoTagNoDomains ==
    cache.versionHash = "" =>
        /\ Count(cache) = 0
        /\ \A q \in Questions :
              ZoneMatches(Zone, q.qname) => ServeDNS(cache, q).answer = <<>>

\* C10: every step of the /notify handler, the cache.Update and cache.Delete
\* calls among them, leaves the version hash and the three SyncStatus
\* fields as they were, whatever the batch.
C10_PushKeepsTagAndStatus ==
    [][(wh' # wh) =>
          /\ GetVersionHash(cache') = GetVersionHash(cache)
          /\ syncStatus'.lastSyncTime = syncStatus.lastSyncTime
          /\ syncStatus'.lastSyncStatus = syncStatus.lastSyncStatus
          /\ syncStatus'.lastError = syncStatus.lastError]_vars

\* A batch with updates and deletes answered 200 after a successful sync.
C10_Witness ==
    /\ wh.code = 200
    /\ wh.updated > 0
    /\ wh.deleted > 0
    /\ cache.versionHash # ""
    /\ syncStatus.lastSyncStatus = "success"

\* The (domain, type) pair whose bucket Update writes for a record.
BucketDomain(record) == normalizeDomain(record.Name)

BucketType(record, dttl) == buildDNSRecords(record, dttl).rrs[1].Rrtype

\* Record i is the last record of the batch that writes its bucket.
LastForPair(recs, i, zone, dttl) ==
    /\ Written(recs[i], zone, dttl)
    /\ \A j \in (i + 1)..Len(recs) :
          Written(recs[j], zone, dttl) =>
              \/ BucketDomain(recs[j]) # BucketDomain(recs[i])
              \/ BucketType(recs[j], dttl) # BucketType(recs[i], dttl)

\* C11: after Update has processed a batch, the bucket of every record it
\* built in the zone holds exactly the records built from the last such
\* record of the batch for that pair; nothing of the previous bucket is kept.
C11_UpdateReplacesBucket ==
    [][(wh.pc = "idle" /\ wh'.pc = "delete") =>
          \A i \in 1..Len(wh'.req.Records) :
              LastForPair(wh'.req.Records, i, cache.zone, defaultTTL) =>
                  LET domain == BucketDomain(wh'.req.Records[i])
                      qtype == BucketType(wh'.req.Records[i], defaultTTL)
                  IN  /\ domain \in DOMAIN cache'.records
                      /\ qtype \in DOMAIN cache'.records[domain]
                      /\ cache'.records[domain][qtype] =
                            buildDNSRecords(wh'.req.Records[i], defaultTTL).rrs]_vars

\* A batch with two records for (x.z., A) has been applied to a cache that
\* held the address of the first generation: the bucket is the second build.
C11_Witness ==
    /\ wh.pc = "delete"
    /\ wh.req.Records = <<RecXA1, RecXA2>>
    /\ cache.versionHash = "v1"
    /\ cache.records[normalizeDomain(NameX)]["A"] = buildDNSRecords(RecXA2, defaultTTL).rrs
    /\ buildDNSRecords(RecXA2, defaultTTL).rrs # buildDNSRecords(RecXA1, defaultTTL).rrs

\* The cache has no bucket for the pair a delete entry names.
PairAbsent(records, del) ==
    \/ normalizeDomain(del.Name) \notin DOMAIN records
    \/ ToUpper(del.Type) \notin DOMAIN records[normalizeDomain(del.Name)]

\* C12: Delete returns no error (the request is answered 200); a delete list
\* whose pairs are all absent from the cache leaves the record mapping as it
\* was; and applying the same list again to the result changes nothing.
C12_DeleteAbsentIsNoOp ==
    [][(wh.pc = "delete" /\ wh'.pc = "idle") =>
          /\ wh'.code = 200
          /\ (\A i \in 1..Len(wh.req.Deletes) : PairAbsent(cache.records, wh.req.Deletes[i]))
                => cache'.records = cache.records
          /\ DeleteLoop(cache'.records, wh.req.Deletes) = cache'.records]_vars

\* A delete-only request of two entries has been answered and both buckets
\* of the first generation are still there with no indirection record: the
\* entries named (x.z., CNAME) or (X.Z., AAAA), pairs the cache did not hold.
C12_Witness ==
    /\ wh.pc = "idle"
    /\ wh.code = 200
    /\ wh.updated = 0
    /\ wh.deleted = 2
    /\ normalizeDomain(NameX) \in DOMAIN cache.records
    /\ DOMAIN cache.records[normalizeDomain(NameX)] = {"A"}
    /\ normalizeDomain(NameY) \in DOMAIN cache.records

\* The (domain, type) pairs a delete list names.
NamedPairs(deletes) ==
    {<<normalizeDomain(deletes[i].Name), ToUpper(deletes[i].Type)>> : i \in 1..Len(deletes)}

\* C13: after Delete, a lookup of every named (name, type) finds nothing,
\* every bucket that was not named is as it was, and a domain entry remains
\* exactly while it has a type bucket left.
C13_DeletedPairIsGone ==
    [][(wh.pc = "delete" /\ wh'.pc = "idle") =>
          /\ \A i \in 1..Len(wh.req.Deletes) :
                Get(cache', wh.req.Deletes[i].Name, ToUpper(wh.req.Deletes[i].Type)) = <<>>
          /\ \A d \in DOMAIN cache.records :
                \A q \in DOMAIN cache.records[d] :
                    <<d, q>> \notin NamedPairs(wh.req.Deletes) =>
                        /\ d \in DOMAIN cache'.records
                        /\ q \in DOMAIN cache'.records[d]
                        /\ cache'.records[d][q] = cache.records[d][q]
          /\ \A d \in DOMAIN cache'.records : DOMAIN cache'.records[d] # {}
          /\ DOMAIN cache'.records \subseteq DOMAIN cache.records]_vars

\* The same, for the entries whose type is A or AAAA in any letter case.
C13_DeletedAddressPairIsGone ==
    [][(wh.pc = "delete" /\ wh'.pc = "idle") =>
          /\ \A i \in 1..Len(wh.req.Deletes) :
                ToUpper(wh.req.Deletes[i].Type) \in {"A", "AAAA"} =>
                    Get(cache', wh.req.Deletes[i].Name, ToUpper(wh.req.Deletes[i].Type)) = <<>>
          /\ \A d \in DOMAIN cache.records :
                \A q \in DOMAIN cache.records[d] :
                    <<d, q>> \notin NamedPairs(wh.req.Deletes) =>
                        /\ d \in DOMAIN cache'.records
                        /\ q \in DOMAIN cache'.records[d]
                        /\ cache'.records[d][q] = cache.records[d][q]
          /\ \A d \in DOMAIN cache'.records : DOMAIN cache'.records[d] # {}
          /\ DOMAIN cache'.records \subseteq DOMAIN cache.records]_vars

\* A name is the zone or a subdomain of it: it ends with the zone and the
\* zone starts at a label boundary.
SubdomainOf(domain, zone) == domain = zone \/ HasSuffix(domain, <<".">> \o zone)

\* C14: every domain key of the cache is the configured zone or a subdomain
\* of it; records of any other name are left out by ReplaceFromSnapshot and
\* by Update.
C14_KeysInZone == \A d \in DOMAIN cache.records : SubdomainOf(d, cache.zone)

\* A sync has succeeded: ReplaceFromSnapshot has returned in some attempt, or
\* a change check has found the cached generation current.
SyncSucceeded == gTime >= 0 \/ sync.pc = "mark"

\* C15: Ready() is true exactly when a sync has succeeded, and no step of a
\* failed tick, a successful tick or a push makes it false again.
C15_ReadyIffSynced ==
    /\ [](Ready <=> SyncSucceeded)
    /\ [][Ready => Ready']_vars

\* Ready although the last tick failed and a push has been answered.
C15_Witness ==
    /\ Ready
    /\ syncStatus.lastSyncStatus = "failed"
    /\ wh.pc = "idle"
    /\ wh.code = 200
    /\ wh.updated + wh.deleted > 0

\* A ServeDNS call starts on a question of the zone / makes its second lookup.
ReadBegins == rd.pc \in {"idle", "done"} /\ rd' # rd /\ ZoneMatches(cache.zone, rd'.q.qname)

ReadLooksUpAddress == rd.pc = "addr" /\ rd'.pc = "done"

ReadReturns == rd' # rd /\ rd'.pc = "done" /\ ZoneMatches(cache.zone, rd'.q.qname)

C17_WitnessNegative ==
    /\ rd.pc = "done"
    /\ rd.q = Question(normalizeDomain(NameX), "CNAME")
    /\ rd.reply.rcode = "NXDOMAIN"

\* C18: a /notify or /records request whose secret is not the configured one
\* (another value, or no header) is answered 401 and leaves the cache, the
\* version hash and the sync status as they were; /health is served whatever
\* secret the request carries.
C18_WrongSecretRejected ==
    /\ [](\A secret \in AuthSecrets : Admit("health", secret))
    /\ [][\A secret \in AuthSecrets \ {Secret} :
              /\ \A req \in NotifyRequests :
                    Notify(secret, req) =>
                        /\ wh'.code = 401
                        /\ wh'.pc = "idle"
                        /\ cache' = cache
                        /\ syncStatus' = syncStatus
              /\ RecordsRequest(secret) =>
                    /\ wh'.code = 401
                    /\ cache' = cache
                    /\ syncStatus' = syncStatus]_vars

\* A request was turned away with 401 from a plugin that holds records, and
\* a /health request has been answered.
C18_Witness ==
    /\ wh.pc = "idle"
    /\ wh.code = 401
    /\ Count(cache) > 0
    /\ cache.versionHash # ""
    /\ health.resp.code = 200

\* The cache.Update step of a push.
UpdateStep == wh.pc = "idle" /\ wh'.pc = "delete"

\* C19: a record with enabled = true, no ips and a failover name builds,
\* without error, to the one CNAME record to the normalized failover name
\* with the effective TTL, the same as the disabled record does.
C19_EnabledNoIPsFailsOver ==
    [][UpdateStep =>
          \A i \in 1..Len(wh'.req.Records) :
              LET record == wh'.req.Records[i]
                  built == buildDNSRecords(record, defaultTTL)
                  ttl == IF record.TTL = 0 THEN defaultTTL ELSE record.TTL
              IN  (record.Enabled /\ record.IPs = <<>> /\ record.Failover # <<>>) =>
                      /\ built.err = NoErr
                      /\ built.rrs = <<RR(normalizeDomain(record.Name), "CNAME", ttl,
                                          normalizeDomain(record.Failover))>>
                      /\ built = buildDNSRecords([record EXCEPT !.Enabled = FALSE],
                                                 defaultTTL)]_vars

\* The records of a batch that have an address or a failover name.
Resolvable(recs) == SelectSeq(recs, LAMBDA record : record.IPs # <<>> \/ record.Failover # <<>>)

\* C20: a record with no ips and no failover name builds to the empty list
\* without error; a batch that carries one gets no bucket for it and its
\* other records are processed as if it were not there.
C20_EmptyRecordDropped ==
    [][UpdateStep =>
          /\ \A i \in 1..Len(wh'.req.Records) :
                LET record == wh'.req.Records[i]
                IN  (record.IPs = <<>> /\ record.Failover = <<>>) =>
                        buildDNSRecords(record, defaultTTL) = [rrs |-> <<>>, err |-> NoErr]
          /\ cache'.records =
                UpdateLoop(cache.records, Resolvable(wh'.req.Records), cache.zone, defaultTTL)]_vars

\* The part of C20 about the cache alone.
C20_NoBucketOthersProcessed ==
    [][UpdateStep =>
          cache'.records =
              UpdateLoop(cache.records, Resolvable(wh'.req.Records), cache.zone, defaultTTL)]_vars

\* The TTL a record's answers carry.
EffectiveTTL(record, dttl) == IF record.TTL = 0 THEN dttl ELSE record.TTL

\* The one CNAME record of the failover branch.
Indirection(record, dttl) ==
    RR(normalizeDomain(record.Name), "CNAME", EffectiveTTL(record, dttl),
       normalizeDomain(record.Failover))

RECURSIVE Surviving(_, _)
Surviving(ips, family) ==
    IF ips = <<>> THEN <<>>
    ELSE IF IPFamily(Head(ips)) = family
         THEN <<IPAddr(Head(ips))>> \o Surviving(Tail(ips), family)
         ELSE Surviving(Tail(ips), family)

UnknownType(record) == ToUpper(record.Type) \notin {"A", "AAAA"}

\* C23: a pushed record whose type is neither A nor AAAA builds to the error
\* "unsupported record type", whatever its enabled, ips and failover, and
\* Update leaves the record mapping as it was.
C23_UnknownTypeFails ==
    [][UpdateStep =>
          \A i \in 1..Len(wh'.req.Records) :
              LET record == wh'.req.Records[i]
                  built == buildDNSRecords(record, defaultTTL)
              IN  UnknownType(record) =>
                      /\ built.err = "unsupported record type"
                      /\ built.rrs = <<>>
                      /\ Len(wh'.req.Records) = 1 => cache'.records = cache.records]_vars

\* The same for enabled records only: a disabled record never reaches the
\* type switch.
C23_EnabledUnknownTypeFails ==
    [][UpdateStep =>
          \A i \in 1..Len(wh'.req.Records) :
              LET record == wh'.req.Records[i]
                  built == buildDNSRecords(record, defaultTTL)
              IN  (UnknownType(record) /\ record.Enabled) =>
                      /\ built.err = "unsupported record type"
                      /\ built.rrs = <<>>
                      /\ Len(wh'.req.Records) = 1 => cache'.records = cache.records]_vars

\* An enabled MX record with a usable address and a failover name has been
\* pushed to a cache that has no bucket for the name but the first
\* generation's, and none was added.
C23_Witness ==
    /\ wh.pc = "delete"
    /\ Len(wh.req.Records) = 1
    /\ wh.req.Records[1].Enabled
    /\ wh.req.Records[1].Type = "MX"
    /\ wh.req.Records[1].IPs = <<"10.0.0.1">>
    /\ wh.req.Records[1].Failover = NameY
    /\ cache.records = ReplaceBuildOf[Generations[1].Records]

\* C24: every record built from a pushed record, address or CNAME, carries
\* the record's TTL when that is not zero and the default TTL when it is
\* zero, and so do the records of the bucket Update writes.
C24_EffectiveTTL ==
    [][UpdateStep =>
          \A i \in 1..Len(wh'.req.Records) :
              LET record == wh'.req.Records[i]
                  built == buildDNSRecords(record, defaultTTL)
                  ttl == IF record.TTL # 0 THEN record.TTL ELSE defaultTTL
              IN  /\ \A k \in 1..Len(built.rrs) : built.rrs[k].Ttl = ttl
                  /\ (Len(wh'.req.Records) = 1 /\ Len(built.rrs) > 0) =>
                        LET bucket == Get(cache', record.Name, built.rrs[1].Rrtype)
                        IN  /\ Len(bucket) = Len(built.rrs)
                            /\ \A k \in 1..Len(bucket) : bucket[k].Ttl = ttl]_vars

\* A record with ttl 45 and two usable addresses has been pushed and both
\* answers carry 45, not the default.
C24_Witness ==
    /\ wh.pc = "delete"
    /\ Len(wh.req.Records) = 1
    /\ wh.req.Records[1].TTL = 45
    /\ wh.req.Records[1].Enabled
    /\ wh.req.Records[1].Type = "A"
    /\ Len(Get(cache, NameX, "A")) = 2
    /\ \A k \in 1..2 : Get(cache, NameX, "A")[k].Ttl = 45
    /\ defaultTTL # 45

\* A record with ttl 0 has been pushed and its CNAME carries the default.
C24_WitnessDefault ==
    /\ wh.pc = "delete"
    /\ Len(wh.req.Records) = 1
    /\ wh.req.Records[1].TTL = 0
    /\ ~wh.req.Records[1].Enabled
    /\ Len(Get(cache, NameX, "CNAME")) = 1
    /\ Get(cache, NameX, "CNAME")[1].Ttl = defaultTTL

\* ReplaceFromSnapshot returns: the swap of a sync attempt is done.
ReplaceStep == sync.pc = "swap" /\ sync'.pc = "mark"

\* What a cache shows: record mapping and version hash.
Content(c) == [records |-> c.records, versionHash |-> c.versionHash]

\* C25: what the cache shows after ReplaceFromSnapshot is what the same call
\* leaves on a new, empty cache, whatever the cache held before, and calling
\* it again with the same snapshot leaves the same record mapping and
\* version hash.
C25_ReplaceIsIdempotent ==
    [][ReplaceStep =>
          LET once == ReplaceFromSnapshot(cache, sync.snapshot, defaultTTL, now)
              fresh == ReplaceFromSnapshot(NewRecordCache(cache.zone), sync.snapshot,
                                           defaultTTL, now)
              twice == ReplaceFromSnapshot(once.cache, sync.snapshot, defaultTTL, now)
          IN  /\ once.err = NoErr
              /\ cache' = once.cache
              /\ Content(cache') = Content(fresh.cache)
              /\ twice.err = NoErr
              /\ Content(twice.cache) = Content(cache')]_vars

\* A replace has run over a cache that held another generation changed by a
\* push.
C25_Witness ==
    /\ sync.pc = "mark"
    /\ gSync.pre.versionHash # ""
    /\ gSync.pre.versionHash # cache.versionHash
    /\ gSync.pre.records # cache.records
    /\ wh.pc = "idle"
    /\ wh.updated > 0

\* The record is inside the zone (by the cache's test) and builds.
Installable(record, zone, dttl) ==
    /\ InZone(normalizeDomain(record.Name), zone)
    /\ buildDNSRecords(record, dttl).err = NoErr

\* C26: ReplaceFromSnapshot returns an error for the nil snapshot and leaves
\* the cache as it is; for every other snapshot it returns no error, adopts
\* the snapshot's version hash and installs what the snapshot's records
\* without the out-of-zone and the failing ones build to.
C26_ReplaceFailsOnlyOnNil ==
    /\ [](LET r == ReplaceFromSnapshot(cache, NilSnapshot, defaultTTL, now)
          IN  r.err # NoErr /\ r.cache = cache)
    /\ [][ReplaceStep =>
              LET r == ReplaceFromSnapshot(cache, sync.snapshot, defaultTTL, now)
                  good == SelectSeq(sync.snapshot.Records,
                                    LAMBDA record : Installable(record, cache.zone, defaultTTL))
              IN  /\ ~sync.snapshot.Nil
                  /\ r.err = NoErr
                  /\ cache' = r.cache
                  /\ cache'.versionHash = sync.snapshot.VersionHash
                  /\ cache'.records = ReplaceBuild(EmptyMap, good, cache.zone, defaultTTL)
                  /\ \A i \in 1..Len(good) :
                        normalizeDomain(good[i].Name) \in DOMAIN cache'.records]_vars

\* A snapshot with a record that does not build (y.z disabled, no failover)
\* has been installed: its version hash is adopted and x.z. is there.
C26_Witness ==
    /\ sync.pc = "mark"
    /\ \E i \in 1..Len(sync.snapshot.Records) :
          ~Installable(sync.snapshot.Records[i], cache.zone, defaultTTL)
    /\ cache.versionHash = sync.snapshot.VersionHash
    /\ cache.versionHash = "v3"
    /\ Get(cache, NameX, "A") # <<>>
    /\ Get(cache, NameY, "A") = <<>>

\* InitClient's sync attempt ends and it goes on to start backgroundSync.
StartupEnds == sync.attempt = "startup" /\ sync.pc \in {"fetch", "mark"} /\ sync'.pc = "spawn"

\* C27: when InitClient's attempt ends after a successful fetch the cache
\* holds the snapshot under its version hash and the status is success; when
\* it ends after a failed fetch the cache is empty, the version hash is
\* empty and the status is failed; backgroundSync has not run before that.
C27_StartupOutcome ==
    [][StartupEnds =>
          /\ IF sync.pc = "mark"
             THEN /\ cache'.records = ReplaceBuildOf[sync.snapshot.Records]
                  /\ cache'.versionHash = sync.snapshot.VersionHash
                  /\ syncStatus'.lastSyncStatus = "success"
                  /\ syncStatus'.lastError = ""
             ELSE /\ Count(cache') = 0
                  /\ cache'.versionHash = ""
                  /\ syncStatus'.lastSyncStatus = "failed"
                  /\ syncStatus'.lastError # ""
          /\ syncStatus.lastSyncStatus = "initial"]_vars

\* The same, with the cache content asked for only when no push was applied
\* while the attempt ran.
C27_StartupOutcomeNoPush ==
    /\ [][StartupEnds =>
              IF sync.pc = "mark"
              THEN /\ ~gSync.pushed => cache'.records = ReplaceBuildOf[sync.snapshot.Records]
                   /\ cache'.versionHash = sync.snapshot.VersionHash
                   /\ syncStatus'.lastSyncStatus = "success"
                   /\ syncStatus'.lastError = ""
              ELSE /\ ~gSync.pushed => Count(cache') = 0
                   /\ cache'.versionHash = ""
                   /\ syncStatus'.lastSyncStatus = "failed"
                   /\ syncStatus'.lastError # ""]_vars
    /\ [](syncStatus.lastSyncStatus = "initial" <=> sync.pc \in {"init", "fetch", "swap", "mark"}
                                                      /\ sync.attempt = "startup")

\* InitClient returns: its attempt ends and backgroundSync is started.
C27_StartupCompletes == <>(sync.pc = "idle")

\* A tick ends on an unchanged answer: performSync returns from the change
\* check with status success.
UnchangedStep ==
    /\ sync.pc = "check"
    /\ sync'.pc = "idle"
    /\ syncStatus'.lastSyncStatus = "success"

\* C28: a tick whose change check answers unchanged writes nothing to the
\* cache: the step leaves it as it is, the version hash is the one the tick
\* started with, the cache is the one the tick started with unless a push
\* was applied meanwhile, and the status becomes success with no error.
C28_UnchangedTickKeepsCache ==
    [][UnchangedStep =>
          /\ cache' = cache
          /\ cache'.versionHash = gSync.pre.versionHash
          /\ cache'.versionHash = sync.currentHash
          /\ ~gSync.pushed => cache' = gSync.pre
          /\ syncStatus'.lastSyncStatus = "success"
          /\ syncStatus'.lastError = ""
          /\ syncStatus'.lastSyncTime = now]_vars

\* A tick has ended on unchanged over a cache whose buckets a push had
\* altered: the cache is not the build of any generation and is what it was
\* when the tick began.
C28_Witness ==
    /\ sync.pc = "idle"
    /\ sync.attempt = "tick"
    /\ syncStatus.lastSyncStatus = "success"
    /\ gSync.pre = cache
    /\ cache.versionHash = Generations[backend].VersionHash
    /\ \A g \in 1..Len(Generations) : cache.records # ReplaceBuildOf[Generations[g].Records]

\* The attempt is a tick that began with a version hash, so it went through
\* the change check.
ChangeTick == sync.attempt = "tick" /\ gSync.pre.versionHash # ""

\* Some record of the payload is installed into bucket (d, q).
FromPayload(recs, d, q) ==
    \E i \in 1..Len(recs) :
        /\ Installable(recs[i], Zone, defaultTTL)
        /\ BucketDomain(recs[i]) = d
        /\ BucketType(recs[i], defaultTTL) = q

\* C29: a tick whose change check returned a changed payload installs the
\* build of the payload's record list as the whole cache under the payload's
\* version hash, which differs from the one sent; no bucket that was in the
\* cache and is not built from the payload remains, whether a generation or
\* a push had put it there; and the tick ends with status success.
C29_ChangedTickInstallsPayload ==
    /\ [][(ReplaceStep /\ ChangeTick) =>
             \E g \in 1..Len(Generations) :
                 /\ sync.snapshot = Generations[g]
                 /\ Generations[g].VersionHash # gSync.pre.versionHash
                 /\ cache'.versionHash = Generations[g].VersionHash
                 /\ cache'.records = ReplaceBuild(EmptyMap, Generations[g].Records,
                                                  Zone, defaultTTL)
                 /\ \A d \in DOMAIN cache'.records :
                       \A q \in DOMAIN cache'.records[d] :
                           FromPayload(Generations[g].Records, d, q)
                 /\ \A d \in DOMAIN cache.records :
                       \A q \in DOMAIN cache.records[d] :
                           ~FromPayload(Generations[g].Records, d, q) =>
                               Get(cache', d, q) = <<>>]_vars
    /\ [][(sync.pc = "mark" /\ sync'.pc # "mark" /\ ChangeTick) =>
             /\ syncStatus'.lastSyncStatus = "success"
             /\ syncStatus'.lastError = ""
             /\ cache' = cache]_vars

\* A changed payload has replaced a cache that held a bucket no generation
\* builds for that version hash, put there by a push, and the bucket is gone.
C29_Witness ==
    /\ sync.pc = "mark"
    /\ ChangeTick
    /\ wh.pc = "idle"
    /\ \E d \in DOMAIN gSync.pre.records :
          \E q \in DOMAIN gSync.pre.records[d] :
              /\ Get(BuildOf(gSync.pre.versionHash), d, q) = <<>>
              /\ Get(cache, d, q) = <<>>

\* The step in which the ticker calls performSync.
TickStarts == sync.pc = "idle" /\ sync'.pc \in {"fetch", "check"}

\* C30: a tick goes to the full fetch exactly when the version hash it
\* reads at its start is empty and to the change check otherwise; the change
\* check carries the hash read at the start until it is answered (an
\* unchanged answer is one for that hash, a changed payload has another
\* hash); and a tick that issued one call never issues the other.
C30_TickIssuesOneCall ==
    /\ [][TickStarts =>
             /\ sync'.attempt = "tick"
             /\ sync'.pc = "fetch" <=> cache.versionHash = ""
             /\ sync'.pc = "check" <=> cache.versionHash # ""
             /\ sync'.currentHash = cache.versionHash]_vars
    /\ []((sync.attempt = "tick" /\ sync.pc = "fetch") => gSync.pre.versionHash = "")
    /\ []((sync.attempt = "tick" /\ sync.pc = "check") =>
             /\ gSync.pre.versionHash # ""
             /\ sync.currentHash = gSync.pre.versionHash)
    /\ [][sync.pc = "check" =>
             /\ sync'.pc \in {"check", "swap", "idle"}
             /\ UnchangedStep => Generations[backend].VersionHash = gSync.pre.versionHash
             /\ sync'.pc = "swap" =>
                   sync'.snapshot.VersionHash # gSync.pre.versionHash]_vars
    /\ [][(sync.attempt = "tick" /\ sync.pc = "fetch") =>
             sync'.pc \in {"fetch", "swap", "idle"}]_vars
    /\ [][(sync.attempt = "tick" /\ sync.pc \in {"swap", "mark"}) =>
             sync'.pc \in {"swap", "mark", "idle"}]_vars

\* A change check is in flight with the hash of a generation the controller
\* has since replaced, over a cache a push changed after the tick began.
C30_Witness ==
    /\ sync.pc = "check"
    /\ sync.attempt = "tick"
    /\ sync.currentHash = cache.versionHash
    /\ sync.currentHash # Generations[backend].VersionHash
    /\ gSync.pushed

\* A tick that found no version hash is fetching the full snapshot.
C30_WitnessFetch ==
    /\ sync.pc = "fetch"
    /\ sync.attempt = "tick"
    /\ cache.versionHash = ""

\* C31: SyncStatus.Update writes the three fields in one step, and after an
\* update whose status is not "failed" the stored error is empty, whatever
\* status and error were passed in; Get returns the three fields of one
\* update.
C31_ErrorEmptyUnlessFailed ==
    /\ syncStatus.lastSyncStatus # "failed" => syncStatus.lastError = ""
    /\ health.got.syncStatus # "failed" => health.got.lastError = ""

\* What Update does: the error text is stored exactly when an error is
\* passed, whatever the status, together with the status and the time.
C31_ErrorEmptyIffNil ==
    [][syncStatus' # syncStatus =>
          \E status \in StatusNames : \E err \in StatusErrs :
              /\ syncStatus'.lastSyncTime = now
              /\ syncStatus'.lastSyncStatus = status
              /\ syncStatus'.lastError = (IF err = NoErr THEN "" ELSE err)]_vars

\* The engine's own calls pass an error exactly with "failed".
C31_EngineErrorOnlyWithFailed ==
    syncStatus.lastSyncStatus # "failed" <=> syncStatus.lastError = ""

\* C32: one sync attempt at a time.  A tick begins only when no attempt is
\* in progress and nothing of the previous attempt is left; the first tick
\* begins only after InitClient's attempt has ended (the status is no longer
\* "initial"); the startup attempt never begins again; and while a tick's
\* attempt is in progress the ticker's next firing is still ahead.
C32_OneAttemptAtATime ==
    /\ [][TickStarts =>
             /\ ~InAttempt
             /\ sync.currentHash = ""
             /\ sync.snapshot = NilSnapshot
             /\ sync.newRecords = EmptyMap
             /\ syncStatus.lastSyncStatus # "initial"
             /\ sync'.sentAt = now]_vars
    /\ [][(sync'.attempt = "startup" /\ sync'.pc # sync.pc) => sync.attempt = "startup"]_vars
    /\ []((sync.attempt = "tick" /\ InAttempt) => now < ticker)
    /\ []((sync.attempt = "startup" /\ (InAttempt \/ sync.pc = "spawn")) => ticker = 0)

\* The ticker's second tick is in progress.
C32_Witness ==
    /\ sync.attempt = "tick"
    /\ InAttempt
    /\ ticker >= 3 * SyncInterval

\* A step of the sync goroutine.
SyncMoves == sync' # sync

C34_NoAttemptAfterShutdown == [][sync.done => ~TickStarts]_vars

\* Once Shutdown has cancelled the context, backgroundSync returns.
C34_LoopTerminates == sync.done ~> (sync.pc = "exited")

\* An attempt that starts after the cancellation is one whose tick was due
\* when the context was cancelled, and the loop never starts one after it
\* has returned.
C34_OnlyPendingTick ==
    /\ [][(sync.done /\ TickStarts) => now = ticker]_vars
    /\ [][sync.pc = "exited" => sync'.pc = "exited"]_vars

\* Shutdown has been called and a tick's attempt is in progress that began
\* after it.
C34_AttemptAfterShutdown ==
    /\ sync.done
    /\ InAttempt
    /\ sync.attempt = "tick"
    /\ sync.sentAt = now
    /\ ticker = now + SyncInterval

\* Every domain entry has a bucket, every bucket has a record, and every
\* record of bucket (d, q) is owned by d and of type q.
WellFormed(records) ==
    \A d \in DOMAIN records :
        /\ DOMAIN records[d] # {}
        /\ \A q \in DOMAIN records[d] :
              /\ Len(records[d][q]) >= 1
              /\ \A i \in 1..Len(records[d][q]) :
                    /\ records[d][q][i].Name = d
                    /\ records[d][q][i].Rrtype = q

\* C35: the cache is well formed in every reachable state, and so is the
\* mapping a replace has built and is about to install; an indirection
\* record is kept under CNAME, never under the raw record's A or AAAA.
C35_CacheWellFormed ==
    /\ WellFormed(cache.records)
    /\ WellFormed(sync.newRecords)
    /\ \A d \in DOMAIN cache.records :
          \A q \in DOMAIN cache.records[d] : q \in {"A", "AAAA", "CNAME"}

\* A delete has removed the last bucket of x.z. from generation v1, which
\* has an address bucket for it, and other domains remain.
C35_Witness ==
    /\ wh.pc = "idle"
    /\ wh.code = 200
    /\ wh.deleted > 0
    /\ cache.versionHash = "v1"
    /\ normalizeDomain(NameX) \notin DOMAIN cache.records
    /\ Count(cache) > 0

\* C36: every CNAME bucket of the cache holds exactly one record, so the
\* answer for a name in failover is a single CNAME record.
C36_OneIndirectionRecord ==
    \A d \in DOMAIN cache.records :
        "CNAME" \in DOMAIN cache.records[d] => Len(cache.records[d]["CNAME"]) = 1

\* Update and Delete leave one record in every CNAME bucket they write or
\* keep, when the cache had one in each before.
C36_PushKeepsOneIndirectionRecord ==
    [][(wh' # wh /\ C36_OneIndirectionRecord) => C36_OneIndirectionRecord']_vars

\* C37: whenever the status is "success" the cache has a version hash;
\* nothing without a version hash reaches the replace; and a step that
\* records a missing version_hash records a failure and leaves the cache
\* as it is.
C37_SuccessHasVersion ==
    /\ [](syncStatus.lastSyncStatus = "success" => cache.versionHash # "")
    /\ [](sync.pc \in {"swap", "mark"} => sync.snapshot.VersionHash # "")
    /\ [][(SyncMoves /\ syncStatus' # syncStatus /\
              syncStatus'.lastError \in {"invalid response: missing version_hash",
                                         "invalid response: missing version_hash in changes"})
             => /\ syncStatus'.lastSyncStatus = "failed"
                /\ cache' = cache]_vars

\* A change check was answered without a version hash: the tick failed and
\* the cache still has the hash it had.
C37_Witness ==
    /\ syncStatus.lastSyncStatus = "failed"
    /\ syncStatus.lastError = "invalid response: missing version_hash in changes"
    /\ cache.versionHash # ""
    /\ sync.pc = "idle"

\* The goroutine's own variable.
PState(p) ==
    CASE p = "sync" -> sync
      [] p = "wh" -> wh
      [] p = "rd" -> rd
      [] p = "health" -> health

\* The step that ends the critical section a goroutine is in can be taken.
HolderCanFinish ==
    /\ <<"sync", "r">> \in mu.cache => ENABLED PerformSyncStart
    /\ <<"sync", "w">> \in mu.cache => ENABLED ReplaceCommit
    /\ <<"sync", "w">> \in mu.status =>
          ENABLED (FetchSnapshotFailed("neterr") \/ CheckChangesFailed("neterr") \/ MarkSuccess)
    /\ <<"health", "r">> \in mu.status => ENABLED HealthGetStatus
    /\ <<"health", "r">> \in mu.cache => ENABLED (HealthCount \/ HealthReply)

\* With both mutexes free some goroutine can go on.
FreeCanStart ==
    mu = NoLocks =>
        ENABLED (\/ Outside("sync") /\ InitClient /\ UNCHANGED timeVars
                 \/ wh.pc \in {"idle", "delete"} /\ Acquire("wh", "cache", "w"))

\* A push handler or a reader that holds cache.mu stands at the position
\* its section's step starts from: wh at the merge or the delete pass, rd at
\* its first or its second cache.Get.
HolderInSection ==
    /\ <<"wh", "w">> \in mu.cache => (wh.pc = "idle" /\ ~stable) \/ wh.pc = "delete"
    /\ <<"rd", "r">> \in mu.cache => rd.pc \in {"idle", "addr"} /\ sync.pc # "init"

\* C38: no goroutine is inside a critical section of cache.mu and one of
\* syncStatus.mu at once; a writer is alone in its mutex; the step a holder
\* takes inside its section unlocks; in every state in which a mutex is
\* held its holder stands where that step starts (for the sync goroutine
\* and the health handler the step is enabled), so a held mutex is always
\* about to be freed; and with no mutex held some goroutine can go on: no
\* state is a deadlock.
C38_LocksNeverNested ==
    /\ [](\A p \in Procs : ~(Holds(p, "cache") /\ Holds(p, "status")))
    /\ [](\A m \in Mutexes : \A h \in mu[m] : h[2] = "w" => mu[m] = {h})
    /\ [][\A p \in Procs : \A m \in Mutexes :
             (Holds(p, m) /\ PState(p)' # PState(p)) => ~Holds(p, m)']_vars
    /\ []HolderCanFinish
    /\ []HolderInSection
    /\ []FreeCanStart

\* The health handler reads the status while a push handler writes the
\* cache, and the sync goroutine waits for the cache with its new mapping.
C38_Witness ==
    /\ <<"health", "r">> \in mu.status
    /\ <<"wh", "w">> \in mu.cache
    /\ sync.pc = "swap"
    /\ sync.attempt = "tick"

\* The (domain, type) pairs whose bucket Update writes for a batch.
WrittenPairs(recs, zone, dttl) ==
    {<<BucketDomain(recs[i]), BucketType(recs[i], dttl)>> :
        i \in {j \in 1..Len(recs) : Written(recs[j], zone, dttl)}}

\* The bucket (d, q) is there or not, with the same records, in both maps.
SameBucket(old, new, d, q) ==
    /\ (d \in DOMAIN old /\ q \in DOMAIN old[d]) <=> (d \in DOMAIN new /\ q \in DOMAIN new[d])
    /\ (d \in DOMAIN old /\ q \in DOMAIN old[d]) => new[d][q] = old[d][q]

Rrtypes == {"A", "AAAA", "CNAME"}

\* C39: a cache.Update call changes no bucket but those of the (domain,
\* type) pairs its in-zone, built, non-empty records write: every other
\* bucket is there or absent as before, with the same records; so the
\* buckets under the name of a skipped record that no other record of the
\* batch writes stay as they were; and zone and version hash are kept.
C39_UpdateWritesOnlyItsBuckets ==
    [][UpdateStep =>
          LET recs == wh'.req.Records
              written == WrittenPairs(recs, cache.zone, defaultTTL)
          IN  /\ \A d \in (DOMAIN cache.records) \cup (DOMAIN cache'.records) :
                    \A q \in Rrtypes :
                        \/ SameBucket(cache.records, cache'.records, d, q)
                        \/ <<d, q>> \in written
              /\ \A i \in 1..Len(recs) :
                    ~Written(recs[i], cache.zone, defaultTTL) =>
                        \A q \in Rrtypes :
                            \/ SameBucket(cache.records, cache'.records, BucketDomain(recs[i]), q)
                            \/ <<BucketDomain(recs[i]), q>> \in written
              /\ cache'.zone = cache.zone
              /\ cache'.versionHash = cache.versionHash]_vars

\* A batch whose first record put the name in failover and whose second
\* record, without a usable address, was skipped: the name's A bucket of
\* the last snapshot is still there next to the new CNAME bucket.
C39_Witness ==
    /\ wh.pc = "delete"
    /\ wh.req.Records = <<RecXFailover, RecEnabledNoIPs>>
    /\ cache.versionHash = "v1"
    /\ Get(cache, NameX, "A") = buildDNSRecords(RecXA1, defaultTTL).rrs
    /\ Len(Get(cache, NameX, "CNAME")) = 1
    /\ Get(cache, NameY, "A") = buildDNSRecords(RecYA, defaultTTL).rrs

\* The delete pass of a /notify request.
DeleteStep == wh.pc = "delete" /\ wh'.pc = "idle"

\* The pairs of a delete list whose type is A or AAAA in any letter case.
AcceptedPairs(deletes) ==
    {p \in NamedPairs(deletes) : p[2] \in {"A", "AAAA"}}

\* The questions for the address and the indirection records of a name.
NameQuestions(d) == {Question(d, t) : t \in Rrtypes}

\* C40: a cache.Delete call answers 200 whatever types its entries name;
\* after it the A and AAAA pairs it named (in any letter case) are gone and
\* every other bucket, every CNAME bucket among them, is as it was; so a
\* name with a CNAME bucket is answered with that CNAME for A, AAAA and
\* CNAME questions after the call as before it; and a CNAME bucket changes
\* only in a cache.Update or a ReplaceFromSnapshot step.
C40_DeleteKeepsIndirection ==
    /\ [][DeleteStep =>
             /\ wh'.code = 200
             /\ \A d \in (DOMAIN cache.records) \cup (DOMAIN cache'.records) :
                   \A q \in Rrtypes :
                       IF <<d, q>> \in AcceptedPairs(wh.req.Deletes)
                       THEN Get(cache', d, q) = <<>>
                       ELSE SameBucket(cache.records, cache'.records, d, q)
             /\ \A d \in DOMAIN cache.records :
                   Len(Get(cache, d, "CNAME")) > 0 =>
                       \A q \in NameQuestions(d) :
                           /\ ServeDNS(cache', q) = ServeDNS(cache, q)
                           /\ ServeDNS(cache', q).answer = Get(cache, d, "CNAME")]_vars
    /\ [][(\E d \in (DOMAIN cache.records) \cup (DOMAIN cache'.records) :
               ~SameBucket(cache.records, cache'.records, d, "CNAME"))
              => (UpdateStep \/ ReplaceStep)]_vars

\* The last request was a list of two deletes that left the other name
\* alone: the name in failover has lost its A bucket of the snapshot and
\* still has its CNAME bucket, which answers the A question.
C40_Witness ==
    /\ wh.pc = "idle"
    /\ wh.code = 200
    /\ wh.deleted = 2
    /\ cache.versionHash = "v1"
    /\ Get(cache, NameX, "A") = <<>>
    /\ Len(Get(cache, NameX, "CNAME")) = 1
    /\ Get(cache, NameY, "A") # <<>>
    /\ ServeDNS(cache, Question(normalizeDomain(NameX), "A")).answer = Get(cache, NameX, "CNAME")
====
